---- MODULE Spec2Model ----
(***************************************************************************)
(* Model of auto_paper_download: the download orchestrator                 *)
(* (clients.batched_download), the provider clients' download_pdf and the  *)
(* supplement discoverer as the orchestrator invokes it.                   *)
(*                                                                         *)
(* Strings that the code inspects character by character (identifiers,     *)
(* publisher labels) are sequences of one-character strings.  None and     *)
(* the empty string are both the empty sequence: the code only ever tests  *)
(* them for truthiness.                                                    *)
(***************************************************************************)
EXTENDS Integers, Sequences, FiniteSets, TLC

\* ------------------------------------------------------------------ bounds

\* Largest number of records the input iterable hands to batched_download.
MaxRecords == 2

\* ------------------------------------------------------- character helpers

Digits == {"0", "1", "2", "3", "4", "5", "6", "7", "8", "9"}

LowerLetters ==
  <<"a", "b", "c", "d", "e", "f", "g", "h", "i", "j", "k", "l", "m",
    "n", "o", "p", "q", "r", "s", "t", "u", "v", "w", "x", "y", "z">>

UpperLetters ==
  <<"A", "B", "C", "D", "E", "F", "G", "H", "I", "J", "K", "L", "M",
    "N", "O", "P", "Q", "R", "S", "T", "U", "V", "W", "X", "Y", "Z">>

Range(s) == {s[i] : i \in DOMAIN s}

\* str.lower() on one character.
LowerChar(c) ==
  IF \E i \in DOMAIN UpperLetters : UpperLetters[i] = c
  THEN LowerLetters[CHOOSE i \in DOMAIN UpperLetters : UpperLetters[i] = c]
  ELSE c

\* str.lower()
Lower(s) == [i \in DOMAIN s |-> LowerChar(s[i])]

\* Python's `needle in hay` on strings.
Contains(hay, needle) ==
  \E i \in 0..(Len(hay) - Len(needle)) :
    \A j \in 1..Len(needle) : hay[i + j] = needle[j]

\* ------------------------------------------------------ _safe_identifier

\* The complement of the character class of _SAFE_PATH_CHARS.
SafePathChars == Digits \cup Range(LowerLetters) \cup Range(UpperLetters) \cup {".", "_", "-"}

\* The slice bound of `cleaned[:150]`.
SafeIdentifierCap == 150

RECURSIVE DropUnsafe(_)
DropUnsafe(s) ==
  IF s = <<>> \/ Head(s) \in SafePathChars THEN s ELSE DropUnsafe(Tail(s))

\* _SAFE_PATH_CHARS.sub("_", identifier): every maximal run of characters
\* outside the class becomes one underscore.
RECURSIVE SubUnsafe(_)
SubUnsafe(s) ==
  IF s = <<>> THEN <<>>
  ELSE IF Head(s) \in SafePathChars THEN <<Head(s)>> \o SubUnsafe(Tail(s))
  ELSE <<"_">> \o SubUnsafe(DropUnsafe(Tail(s)))

RECURSIVE LStrip(_, _)
LStrip(s, chars) ==
  IF s # <<>> /\ Head(s) \in chars THEN LStrip(Tail(s), chars) ELSE s

RECURSIVE RStrip(_, _)
RStrip(s, chars) ==
  IF s # <<>> /\ s[Len(s)] \in chars THEN RStrip(SubSeq(s, 1, Len(s) - 1), chars) ELSE s

\* str.strip(chars)
Strip(s, chars) == RStrip(LStrip(s, chars), chars)

_safe_identifier(identifier) ==
  LET cleaned == Strip(SubUnsafe(identifier), {".", "_"})
      named   == IF cleaned = <<>> THEN <<"a", "r", "t", "i", "c", "l", "e">> ELSE cleaned
  IN  SubSeq(named, 1, IF Len(named) < SafeIdentifierCap THEN Len(named) ELSE SafeIdentifierCap)

\* ------------------------------------------------------------- input data

None == <<>>

\* Identifiers of the records of a batch.  DoiA and DoiB differ only in a
\* character that _safe_identifier rewrites.
DoiA == <<"1", "/", "a">>
DoiB == <<"1", "_", "a">>
DoiC == <<"2", "/", "b">>
PiiP == <<"p">>

\* ArticleRecord: the fields batched_download reads.  `publisher` is the
\* label as a string, None for a record without one.
ArticleRecord(publisher, doi, pii) == [publisher |-> publisher, doi |-> doi, pii |-> pii]

RecordShapes ==
  { ArticleRecord("Wiley", DoiA, None),
    ArticleRecord("Wiley", None, None),
    ArticleRecord("Elsevier", DoiC, None),
    ArticleRecord("Elsevier", None, PiiP),
    ArticleRecord("Elsevier", None, None),
    ArticleRecord("Springer", DoiC, None),
    ArticleRecord("Crossref", DoiB, None),
    ArticleRecord("Crossref", None, None),
    ArticleRecord("None", DoiA, None) }

\* The characters of a publisher label (record.publisher or "").
LabelChars(publisher) ==
  CASE publisher = "Wiley"    -> <<"W", "i", "l", "e", "y">>
    [] publisher = "Elsevier" -> <<"E", "l", "s", "e", "v", "i", "e", "r">>
    [] publisher = "Springer" -> <<"S", "p", "r", "i", "n", "g", "e", "r">>
    [] publisher = "Crossref" -> <<"C", "r", "o", "s", "s", "r", "e", "f">>
    [] OTHER                  -> <<>>

\* publisher_label = record.publisher or "Unknown"
PublisherLabel(rec) == IF rec.publisher = "None" THEN "Unknown" ELSE rec.publisher

ClientNames == {"Elsevier", "Crossref", "OpenAlex", "Springer", "Wiley"}

\* The sets of clients a caller hands to batched_download: all of them, none,
\* the two generic ones only, and all but one of the generic ones, and the
\* single premium client of the end-to-end scenario.
ClientSets ==
  { ClientNames,
    {},
    {"OpenAlex", "Crossref"},
    ClientNames \ {"OpenAlex"},
    ClientNames \ {"Crossref"},
    {"Wiley"} }

\* ------------------------------------------------------------ file system

NoFile == "none"

\* One article directory: whether it exists, what wrote <stem>.pdf, the
\* legacy article.pdf, and the number of supplementary files in it.
AbsentDir == [exists |-> FALSE, pdf |-> NoFile, legacy |-> NoFile, supp |-> 0]

DirNames == { _safe_identifier(i) : i \in {DoiA, DoiB, DoiC, PiiP} }

IsEmptyDir(d) == d.pdf = NoFile /\ d.legacy = NoFile /\ d.supp = 0

\* Path.mkdir(parents=True, exist_ok=True)
Mkdir(d) == [d EXCEPT !.exists = TRUE]

\* Mutant of _article_destination: a legacy article.pdf is renamed over
\* whatever <stem>.pdf there is.
ArticleDestinationOverwrites(d) ==
  LET made == Mkdir(d)
  IN  IF made.legacy # NoFile
      THEN [made EXCEPT !.pdf = made.legacy, !.legacy = NoFile]
      ELSE made

\* _article_destination: create the directory, migrate a legacy article.pdf
\* when no <stem>.pdf exists.  The rename is taken to succeed; an OSError
\* from it is caught and leaves both names as they were.
_article_destination(d) ==
  LET made == Mkdir(d)
  IN  IF made.legacy # NoFile /\ made.pdf = NoFile
      THEN [made EXCEPT !.pdf = made.legacy, !.legacy = NoFile]
      ELSE made

\* Mutant of _cleanup_article_dir: the directory is never removed.
CleanupKeepsDirectory(d) == d

\* Mutant of _cleanup_article_dir: the directory is removed with its content.
CleanupRemovesTree(d) == IF d.exists THEN AbsentDir ELSE d

\* _cleanup_article_dir: remove the directory when it exists and is empty.
_cleanup_article_dir(d) ==
  IF d.exists /\ IsEmptyDir(d) THEN [d EXCEPT !.exists = FALSE] ELSE d

\* ------------------------------------------------------------- exceptions

Exc(type, msg) == [type |-> type, msg |-> msg]

NoExc == Exc("none", "")

\* raise DownloadError(msg)
DownloadError(msg) == Exc("DownloadError", msg)

\* What requests raises when a request or a streamed body fails
\* (requests.RequestException: not a DownloadError).
RequestException == Exc("RequestException", "")

\* ---------------------------------------------------- provider clients

\* The result of one download_pdf call: the exception it raised (NoExc when it
\* returned the destination), the HTTP requests it issued in order, and the
\* article directory afterwards.
Outcome(exc, http, d) == [exc |-> exc, http |-> http, dir |-> d]

\* Mutant of ExistingShortcut: the overwrite flag read the wrong way round.
ShortcutOnOverwrite(d, overwrite) == d.pdf # NoFile /\ overwrite

\* `if destination.exists() and not overwrite: return destination`
ExistingShortcut(d, overwrite) == d.pdf # NoFile /\ ~overwrite

\* The tail every client shares: destination.parent.mkdir, the content GET,
\* the status check and the streamed write.  open("wb") creates or truncates
\* the file before the first chunk arrives, so a body that breaks off leaves
\* a partial file.
ContentRequest(who, d, http, failure) ==
  LET made == Mkdir(d)
      sent == Append(http, "content")
  IN  { Outcome(RequestException, sent, made),
        Outcome(RequestException, sent, [made EXCEPT !.pdf = "partial"]),
        Outcome(NoExc, sent, [made EXCEPT !.pdf = who]) }
      \cup { Outcome(DownloadError(m), sent, made) : m \in failure }

\* WileyClient.download_pdf
WileyClient_download_pdf(doi, d, overwrite) ==
  IF ExistingShortcut(d, overwrite) THEN { Outcome(NoExc, <<>>, d) }
  ELSE ContentRequest("Wiley", d, <<>>, {"Wiley download failed"})

\* ElsevierClient.download_pdf
ElsevierClient_download_pdf(doi, pii, d, overwrite) ==
  IF doi = None /\ pii = None THEN { Outcome(Exc("ValueError", ""), <<>>, d) }
  ELSE IF ExistingShortcut(d, overwrite) THEN { Outcome(NoExc, <<>>, d) }
  ELSE ContentRequest("Elsevier", d, <<>>, {"Elsevier download failed"})

\* SpringerClient.download_pdf, with _fetch_metadata_for_doi, _select_pdf_url
\* and _fallback_pdf_url.
SpringerClient_download_pdf(doi, d, overwrite) ==
  IF ExistingShortcut(d, overwrite) THEN { Outcome(NoExc, <<>>, d) }
  ELSE
    { Outcome(RequestException, <<"metadata">>, d),
      Outcome(DownloadError("Springer metadata lookup failed (403)"), <<"metadata">>, d),
      Outcome(DownloadError("Springer metadata not found"), <<"metadata">>, d) }
    \cup (IF doi = None
          THEN { Outcome(DownloadError("No PDF URL available for Springer DOI"), <<"metadata">>, d) }
          ELSE {})
    \cup ContentRequest("Springer", d, <<"metadata">>,
                        {"Springer download failed (403)", "Springer download failed (500)"})

\* CrossrefClient.download_pdf, with _fetch_work_metadata, _license_allowed,
\* _select_pdf_url and _extract_pdf_from_link_header.
CrossrefClient_download_pdf(doi, d, overwrite) ==
  IF doi = None THEN { Outcome(Exc("ValueError", ""), <<>>, d) }
  ELSE IF ExistingShortcut(d, overwrite) THEN { Outcome(NoExc, <<>>, d) }
  ELSE
    { Outcome(RequestException, <<"metadata">>, d),
      Outcome(DownloadError("Crossref metadata lookup failed"), <<"metadata">>, d),
      Outcome(DownloadError("Crossref license not in allowed safelist"), <<"metadata">>, d),
      Outcome(DownloadError("No PDF link found via Crossref"), <<"metadata", "head">>, d) }
    \cup ContentRequest("Crossref", d, <<"metadata">>, {"Crossref download failed"})
    \cup ContentRequest("Crossref", d, <<"metadata", "head">>, {"Crossref download failed"})

\* OpenAlexClient.download_pdf, with _fetch_work, _is_open_access and
\* _extract_pdf_url.
OpenAlexClient_download_pdf(doi, d, overwrite) ==
  IF doi = None THEN { Outcome(Exc("ValueError", ""), <<>>, d) }
  ELSE IF ExistingShortcut(d, overwrite) THEN { Outcome(NoExc, <<>>, d) }
  ELSE
    { Outcome(RequestException, <<"metadata">>, d),
      Outcome(DownloadError("OpenAlex metadata lookup failed"), <<"metadata">>, d),
      Outcome(DownloadError("OpenAlex reports DOI is not open access"), <<"metadata">>, d),
      Outcome(DownloadError("No open-access PDF URL available via OpenAlex"), <<"metadata">>, d) }
    \cup ContentRequest("OpenAlex", d, <<"metadata">>, {"OpenAlex download failed"})

\* client.download_pdf(...) for the client named `who`.
DownloadPdf(who, doi, pii, d, overwrite) ==
  CASE who = "Wiley"    -> WileyClient_download_pdf(doi, d, overwrite)
    [] who = "Elsevier" -> ElsevierClient_download_pdf(doi, pii, d, overwrite)
    [] who = "Springer" -> SpringerClient_download_pdf(doi, d, overwrite)
    [] who = "Crossref" -> CrossrefClient_download_pdf(doi, d, overwrite)
    [] who = "OpenAlex" -> OpenAlexClient_download_pdf(doi, d, overwrite)

\* --------------------------------------------------- supplement discoverer

\* The keyword parameters download_supplements_for_doi declares.
SupplementParameters ==
  {"doi", "destination_dir", "session", "overwrite", "max_links", "user_agent"}

\* The keyword arguments batched_download passes at each of its call sites.
SupplementCallKeywords ==
  {"doi", "destination_dir", "session", "overwrite", "publisher"}

\* The body of download_supplements_for_doi: it returns [] when the landing
\* page cannot be loaded or shows no candidate, otherwise the paths it saved;
\* only requests.RequestException is caught around a candidate, so an OSError
\* of destination.open or mkdir leaves the function.
SupplementBody(doi, d) ==
  IF doi = None THEN { Outcome(NoExc, <<>>, d) }
  ELSE
    { Outcome(NoExc, <<"landing">>, d),
      Outcome(NoExc, <<"landing", "asset">>, Mkdir(d)),
      Outcome(NoExc, <<"landing", "asset">>, [Mkdir(d) EXCEPT !.supp = 1]),
      Outcome(Exc("OSError", ""), <<"landing", "asset">>, Mkdir(d)) }

\* One call download_supplements_for_doi(**keywords): Python binds the
\* keywords to the parameters before the body runs and raises TypeError for
\* a keyword the function does not declare.
download_supplements_for_doi(keywords, doi, d) ==
  IF keywords \subseteq SupplementParameters
  THEN SupplementBody(doi, d)
  ELSE { Outcome(Exc("TypeError", "unexpected keyword argument"), <<>>, d) }

\* ------------------------------------------------------- batched_download

VARIABLES
  cfg,             \* the keyword arguments of the call: clients, overwrite, ...
  fs,              \* the article directories under output_root
  metrics,         \* the caller's metrics mapping (empty and unused when None)
  idx,             \* number of records taken from `records` so far
  record,          \* the loop variable
  pc,              \* position of the generator
  provider,        \* the client whose attempt is in progress
  article_dir,     \* local: None or the directory name
  pdf_downloaded,  \* local
  tried,           \* local of the Crossref branch
  success,         \* local of the Crossref branch
  exc,             \* the exception being raised out of the try block
  obs,             \* what the current record made observable so far
  calls,           \* calls made on the library functions directly, see ClientSpec
  args,            \* the arguments of the entry point that was called
  environ,         \* os.environ: the names of the credentials that are set
  dois,            \* download_from_savedrecs: local
  records,         \* download_from_savedrecs: local, the download plan
  constructed,     \* download_from_savedrecs: the clients that were constructed
  disabled_publishers,  \* download_from_savedrecs: local
  output_dir,      \* whether the output directory exists
  checkpoint,      \* the checkpoint file: readable or not, last_completed_index
  ledger,          \* the lines of the success and failure ledgers, oldest first
  position,        \* index in the batch of the record being processed
  values,          \* mcp_server: credential_store.values
  os_environ,      \* mcp_server: os.environ, with the values of its keys
  tasks,           \* mcp_server: the tool calls the server is running or has run
  jobs             \* mcp_server: job_registry._jobs

vars ==
  <<cfg, fs, metrics, idx, record, pc, provider, article_dir, pdf_downloaded,
    tried, success, exc, obs, calls, args, environ, dois, records, constructed,
    disabled_publishers, output_dir, checkpoint, ledger, position,
    values, os_environ, tasks, jobs>>

\* The state of download_from_savedrecs.
run_vars == <<args, environ, dois, records, constructed, disabled_publishers, output_dir>>

\* The state of the resilience layer.
resume_vars == <<checkpoint, ledger, position>>

\* No batch is being run with a checkpoint.
Unreadable == [readable |-> FALSE, last_completed_index |-> 0]

Checkpoint(k) == [readable |-> TRUE, last_completed_index |-> k]

NoResume ==
  /\ checkpoint = Unreadable
  /\ ledger = <<>>
  /\ position = 0

\* The state of the MCP server.
server_vars == <<values, os_environ, tasks, jobs>>

\* No MCP server is running.
NoServer ==
  /\ values = [k \in {} |-> <<>>]
  /\ os_environ = [k \in {} |-> <<>>]
  /\ tasks = <<>>
  /\ jobs = [j \in {} |-> <<>>]

\* batched_download or a client called by itself: no download_from_savedrecs
\* run is in progress.
NoRun ==
  /\ args = [entry |-> "batched_download"]
  /\ environ = {}
  /\ dois = <<>>
  /\ records = <<>>
  /\ constructed = {}
  /\ disabled_publishers = <<>>
  /\ output_dir = FALSE
  /\ NoResume
  /\ NoServer

locals == <<article_dir, pdf_downloaded, tried, success>>

NoRecord == ArticleRecord("None", None, None)

\* Per record: the download_pdf calls in order, each with the client and the
\* class of the exception it raised ("none" when it returned); whether any
\* HTTP request was issued; the paths yielded, in order; the result of
\* each supplement call; the failure reports logged; whether time.sleep ran;
\* how the iteration ended.
NoObs ==
  [attempts |-> <<>>, net |-> FALSE, yields |-> <<>>, supplements |-> <<>>,
   reports |-> 0, slept |-> FALSE, status |-> "running"]

Configurations ==
  [clients : ClientSets, overwrite : BOOLEAN, raise_on_error : BOOLEAN,
   has_metrics : BOOLEAN, delay_seconds : {0, 1}]

\* What a previous run may have left under output_root: nothing, or the
\* article directory of DoiA with its primary PDF.
InitialFs ==
  { [n \in DirNames |-> AbsentDir],
    [n \in DirNames |-> IF n = _safe_identifier(DoiA)
                        THEN [Mkdir(AbsentDir) EXCEPT !.pdf = "earlier"]
                        ELSE AbsentDir] }

Init ==
  /\ cfg \in Configurations
  /\ fs \in InitialFs
  /\ metrics = [l \in {} |-> 0]
  /\ idx = 0
  /\ record = NoRecord
  /\ pc = "loop"
  /\ provider = "none"
  /\ article_dir = None
  /\ pdf_downloaded = FALSE
  /\ tried = <<>>
  /\ success = FALSE
  /\ exc = NoExc
  /\ obs = NoObs
  /\ calls = <<>>
  /\ NoRun

\* publisher = (record.publisher or "").lower()
Publisher(rec) == Lower(LabelChars(rec.publisher))

Needle(who) == Lower(LabelChars(who))

\* The branch of the if/elif chain a record takes.
Branch(rec) ==
  CASE Contains(Publisher(rec), Needle("Elsevier")) -> "Elsevier"
    [] Contains(Publisher(rec), Needle("Wiley"))    -> "Wiley"
    [] Contains(Publisher(rec), Needle("Springer")) -> "Springer"
    [] Contains(Publisher(rec), Needle("Crossref")) -> "Crossref"
    [] OTHER                                        -> "unsupported"

\* Mutant of SetDefault: the entry of the label is reset at every record.
SetDefaultResets(m, label) ==
  [l \in DOMAIN m \cup {label} |->
     IF l = label THEN [attempted |-> 0, succeeded |-> 0] ELSE m[l]]

\* metrics.setdefault(label, {"attempted": 0, "succeeded": 0})
SetDefault(m, label) ==
  IF label \in DOMAIN m THEN m ELSE m @@ (label :> [attempted |-> 0, succeeded |-> 0])

\* The primary PDF's path inside an article directory.
PdfPath(dirname) == <<dirname, "pdf">>

\* Mutant of NextRecord: the next record is fetched while the supplements of
\* the current one are still pending.
NextRecordPrefetches ==
  /\ pc \in {"loop", "supplements"}
  /\ idx < MaxRecords
  /\ \E r \in RecordShapes :
       /\ record' = r
       /\ metrics' =
            IF cfg.has_metrics
            THEN [SetDefault(metrics, PublisherLabel(r))
                    EXCEPT ![PublisherLabel(r)].attempted = @ + 1]
            ELSE metrics
  /\ idx' = idx + 1
  /\ article_dir' = None
  /\ pdf_downloaded' = FALSE
  /\ tried' = <<>>
  /\ success' = FALSE
  /\ exc' = NoExc
  /\ provider' = "none"
  /\ obs' = NoObs
  /\ pc' = "route"
  /\ UNCHANGED <<run_vars, resume_vars, server_vars, calls, cfg, fs>>

\* `for record in records:` up to `pdf_downloaded = False`.
NextRecord ==
  /\ pc = "loop"
  /\ idx < MaxRecords
  /\ \E r \in RecordShapes :
       /\ record' = r
       /\ metrics' =
            IF cfg.has_metrics
            THEN [SetDefault(metrics, PublisherLabel(r))
                    EXCEPT ![PublisherLabel(r)].attempted = @ + 1]
            ELSE metrics
  /\ idx' = idx + 1
  /\ article_dir' = None
  /\ pdf_downloaded' = FALSE
  /\ tried' = <<>>
  /\ success' = FALSE
  /\ exc' = NoExc
  /\ provider' = "none"
  /\ obs' = NoObs
  /\ pc' = "route"
  /\ UNCHANGED <<run_vars, resume_vars, server_vars, calls, cfg, fs>>

\* `records` is exhausted: the generator returns.
Exhausted ==
  /\ pc = "loop"
  /\ pc' = "done"
  /\ UNCHANGED <<run_vars, resume_vars, server_vars, calls, cfg, fs, metrics, idx, record, provider, locals, exc, obs>>

\* A raise inside the try block, before any client was called.
Reject(message) ==
  /\ exc' = DownloadError(message)
  /\ pc' = "except"
  /\ UNCHANGED <<run_vars, resume_vars, server_vars, calls, cfg, fs, metrics, idx, record, provider, locals, obs>>

\* What one download_pdf call of client `who` adds to the observations: the
\* call itself, its requests, and the `yield pdf_path` that follows a return.
Observe(o, who, dirname) ==
  [obs EXCEPT !.attempts = Append(@, [client |-> who, raised |-> o.exc.type]),
              !.net = @ \/ o.http # <<>>,
              !.yields = IF o.exc = NoExc THEN Append(@, PdfPath(dirname)) ELSE @]

\* Mutant of PremiumAttempt: a failed premium download falls through to the
\* generic chain.
PremiumAttemptFallsBack(who, identifier) ==
  LET dirname == _safe_identifier(identifier)
  IN  \E o \in DownloadPdf(who, record.doi, record.pii,
                           _article_destination(fs[dirname]), cfg.overwrite) :
        /\ fs' = [fs EXCEPT ![dirname] = o.dir]
        /\ article_dir' = dirname
        /\ provider' = who
        /\ obs' = Observe(o, who, dirname)
        /\ pdf_downloaded' = (o.exc = NoExc)
        /\ exc' = o.exc
        /\ pc' = IF o.exc # NoExc /\ record.doi # None THEN "openalex"
                 ELSE IF o.exc # NoExc THEN "except"
                 ELSE IF record.doi # None THEN "supplements"
                 ELSE "finish"
        /\ UNCHANGED <<run_vars, resume_vars, server_vars, calls, cfg, metrics, idx, record, tried, success>>

\* A premium branch from `fname = _safe_identifier(...)` to `yield pdf_path`.
PremiumAttempt(who, identifier) ==
  LET dirname == _safe_identifier(identifier)
  IN  \E o \in DownloadPdf(who, record.doi, record.pii,
                           _article_destination(fs[dirname]), cfg.overwrite) :
        /\ fs' = [fs EXCEPT ![dirname] = o.dir]
        /\ article_dir' = dirname
        /\ provider' = who
        /\ obs' = Observe(o, who, dirname)
        /\ pdf_downloaded' = (o.exc = NoExc)
        /\ exc' = o.exc
        /\ pc' = IF o.exc # NoExc THEN "except"
                 ELSE IF record.doi # None THEN "supplements"
                 ELSE "finish"
        /\ UNCHANGED <<run_vars, resume_vars, server_vars, calls, cfg, metrics, idx, record, tried, success>>

\* if "elsevier" in publisher: ... yield pdf_path
ElsevierDownload ==
  /\ pc = "route"
  /\ Branch(record) = "Elsevier"
  /\ IF "Elsevier" \notin cfg.clients
     THEN Reject("ElsevierClient missing for Elsevier record.")
     ELSE IF record.doi = None /\ record.pii = None
     THEN Reject("No DOI/PII for Elsevier record")
     ELSE PremiumAttempt("Elsevier", IF record.doi # None THEN record.doi ELSE record.pii)

\* elif "wiley" in publisher: ... yield pdf_path
WileyDownload ==
  /\ pc = "route"
  /\ Branch(record) = "Wiley"
  /\ IF "Wiley" \notin cfg.clients
     THEN Reject("WileyClient missing for Wiley record.")
     ELSE IF record.doi = None
     THEN Reject("No DOI for Wiley record")
     ELSE PremiumAttempt("Wiley", record.doi)

\* `"metadata not found" in message or "download failed (403" in message`,
\* on the messages SpringerClient raises.
SubscriptionWall(e) ==
  /\ e.type = "DownloadError"
  /\ e.msg \in {"Springer metadata not found", "Springer download failed (403)"}

\* Mutant of SpringerDownload: without the inner `except DownloadError`, so a
\* subscription wall reaches the handler like any other failure.
SpringerDownloadWallFails ==
  /\ pc = "route"
  /\ Branch(record) = "Springer"
  /\ IF "Springer" \notin cfg.clients
     THEN Reject("SpringerClient missing for Springer record.")
     ELSE IF record.doi = None
     THEN Reject("No DOI for Springer record")
     ELSE PremiumAttempt("Springer", record.doi)

\* elif "springer" in publisher: ... yield pdf_path, with the inner
\* `except DownloadError` that skips a record behind a subscription wall.
SpringerDownload ==
  /\ pc = "route"
  /\ Branch(record) = "Springer"
  /\ IF "Springer" \notin cfg.clients
     THEN Reject("SpringerClient missing for Springer record.")
     ELSE IF record.doi = None
     THEN Reject("No DOI for Springer record")
     ELSE
       LET dirname == _safe_identifier(record.doi)
       IN  \E o \in DownloadPdf("Springer", record.doi, record.pii,
                                _article_destination(fs[dirname]), cfg.overwrite) :
             /\ article_dir' = dirname
             /\ provider' = "Springer"
             /\ pdf_downloaded' = (o.exc = NoExc)
             /\ IF SubscriptionWall(o.exc)
                THEN /\ fs' = [fs EXCEPT ![dirname] = _cleanup_article_dir(o.dir)]
                     /\ obs' = [Observe(o, "Springer", dirname) EXCEPT !.status = "skipped"]
                     /\ exc' = NoExc
                     /\ pc' = "loop"
                ELSE /\ fs' = [fs EXCEPT ![dirname] = o.dir]
                     /\ obs' = Observe(o, "Springer", dirname)
                     /\ exc' = o.exc
                     /\ pc' = IF o.exc = NoExc THEN "supplements" ELSE "except"
             /\ UNCHANGED <<run_vars, resume_vars, server_vars, calls, cfg, metrics, idx, record, tried, success>>

\* Mutant of CrossrefRoute: the article directory is created as soon as its
\* path is known.
CrossrefRouteCreatesDirectory ==
  /\ pc = "route"
  /\ Branch(record) = "Crossref"
  /\ IF record.doi = None
     THEN Reject("No DOI for Crossref record")
     ELSE /\ article_dir' = _safe_identifier(record.doi)
          /\ fs' = [fs EXCEPT ![_safe_identifier(record.doi)] = _article_destination(@)]
          /\ pc' = "openalex"
          /\ UNCHANGED <<run_vars, resume_vars, server_vars, calls, cfg, metrics, idx, record, provider,
                         pdf_downloaded, tried, success, exc, obs>>

\* elif "crossref" in publisher: up to `success = False`.
CrossrefRoute ==
  /\ pc = "route"
  /\ Branch(record) = "Crossref"
  /\ IF record.doi = None
     THEN Reject("No DOI for Crossref record")
     ELSE /\ article_dir' = _safe_identifier(record.doi)
          /\ pc' = "openalex"
          /\ UNCHANGED <<run_vars, resume_vars, server_vars, calls, cfg, fs, metrics, idx, record, provider, pdf_downloaded,
                         tried, success, exc, obs>>

\* else: raise DownloadError("Unsupported publisher ...")
Unsupported ==
  /\ pc = "route"
  /\ Branch(record) = "unsupported"
  /\ Reject("Unsupported publisher for record")

\* What the Crossref branch reads of an exception it caught: its class
\* (isinstance in the handler), never its message.
Caught(e) == Exc(e.type, "")

\* One generic attempt, from _article_destination to `yield pdf_path`; an
\* exception is caught by the attempt's own `except Exception` and appended
\* to `tried`.
GenericAttempt(who, after) ==
  \E o \in DownloadPdf(who, record.doi, record.pii,
                       _article_destination(fs[article_dir]), cfg.overwrite) :
    /\ fs' = [fs EXCEPT ![article_dir] = o.dir]
    /\ provider' = who
    /\ obs' = Observe(o, who, article_dir)
    /\ pdf_downloaded' = (pdf_downloaded \/ o.exc = NoExc)
    /\ tried' = IF o.exc = NoExc THEN tried ELSE Append(tried, Caught(o.exc))
    /\ pc' = IF o.exc = NoExc THEN "supplements" ELSE after
    /\ UNCHANGED <<run_vars, resume_vars, server_vars, calls, cfg, metrics, idx, record, article_dir, success, exc>>

\* if openalex_client: try: ... except Exception: tried.append(exc)
OpenAlexAttempt ==
  /\ pc = "openalex"
  /\ IF "OpenAlex" \in cfg.clients
     THEN GenericAttempt("OpenAlex", "crossref")
     ELSE /\ pc' = "crossref"
          /\ UNCHANGED <<run_vars, resume_vars, server_vars, calls, cfg, fs, metrics, idx, record, provider, locals, exc, obs>>

\* if not success and crossref_client: try: ... except Exception: tried.append(exc)
CrossrefAttempt ==
  /\ pc = "crossref"
  /\ IF ~success /\ "Crossref" \in cfg.clients
     THEN GenericAttempt("Crossref", "resolve")
     ELSE /\ pc' = "resolve"
          /\ UNCHANGED <<run_vars, resume_vars, server_vars, calls, cfg, fs, metrics, idx, record, provider, locals, exc, obs>>

\* if not success: raise tried[-1], or DownloadError when nothing was tried.
Resolve ==
  /\ pc = "resolve"
  /\ IF success
     THEN /\ pc' = "finish"
          /\ exc' = exc
     ELSE /\ pc' = "except"
          /\ exc' = IF tried # <<>> THEN tried[Len(tried)]
                    ELSE DownloadError("Neither OpenAlexClient nor CrossrefClient configured")
  /\ UNCHANGED <<run_vars, resume_vars, server_vars, calls, cfg, fs, metrics, idx, record, provider, locals, obs>>

\* `for supplemental in download_supplements_for_doi(...): yield supplemental`
\* at the call site of the attempt in progress.  In a premium branch an
\* exception leaves the try block; in the Crossref branch the attempt's own
\* `except Exception` takes it, and `success = True` is set only after the
\* loop.
Supplements ==
  /\ pc = "supplements"
  /\ \E o \in download_supplements_for_doi(SupplementCallKeywords, record.doi,
                                           fs[article_dir]) :
       /\ fs' = [fs EXCEPT ![article_dir] = o.dir]
       /\ obs' = [obs EXCEPT
                    !.net = @ \/ o.http # <<>>,
                    !.supplements = Append(@, o.exc.type),
                    !.yields = IF o.exc = NoExc /\ o.dir.supp > 0
                               THEN Append(@, <<article_dir, "supplement">>)
                               ELSE @]
       /\ IF provider \in {"OpenAlex", "Crossref"}
          THEN /\ success' = (o.exc = NoExc)
               /\ tried' = IF o.exc = NoExc THEN tried ELSE Append(tried, Caught(o.exc))
               /\ exc' = exc
               /\ pc' = IF provider = "OpenAlex" THEN "crossref" ELSE "resolve"
          ELSE /\ success' = success
               /\ tried' = tried
               /\ exc' = o.exc
               /\ pc' = IF o.exc = NoExc THEN "finish" ELSE "except"
  /\ UNCHANGED <<run_vars, resume_vars, server_vars, calls, cfg, metrics, idx, record, provider, article_dir, pdf_downloaded>>

\* if metrics_entry and pdf_downloaded: ...; if delay_seconds: time.sleep(...)
Finish ==
  /\ pc = "finish"
  /\ metrics' =
       IF cfg.has_metrics /\ pdf_downloaded
       THEN [metrics EXCEPT ![PublisherLabel(record)].succeeded = @ + 1]
       ELSE metrics
  /\ obs' = [obs EXCEPT !.slept = (cfg.delay_seconds # 0), !.status = "succeeded"]
  /\ pc' = "loop"
  /\ UNCHANGED <<run_vars, resume_vars, server_vars, calls, cfg, fs, idx, record, provider, locals, exc>>

\* Mutant of Except: one failure report per provider that was tried.
ExceptReportsEachProvider ==
  /\ pc = "except"
  /\ fs' = IF article_dir # None
           THEN [fs EXCEPT ![article_dir] = _cleanup_article_dir(@)]
           ELSE fs
  /\ obs' = [obs EXCEPT !.reports = @ + (IF tried = <<>> THEN 1 ELSE Len(tried)),
                        !.status = "failed"]
  /\ pc' = IF cfg.raise_on_error THEN "raised" ELSE "loop"
  /\ UNCHANGED <<run_vars, resume_vars, server_vars, calls, cfg, metrics, idx, record, provider, locals, exc>>

\* Mutant of Except: the exception is re-raised whatever raise_on_error says.
ExceptAlwaysRaises ==
  /\ pc = "except"
  /\ fs' = IF article_dir # None
           THEN [fs EXCEPT ![article_dir] = _cleanup_article_dir(@)]
           ELSE fs
  /\ obs' = [obs EXCEPT !.reports = @ + 1, !.status = "failed"]
  /\ pc' = "raised"
  /\ UNCHANGED <<run_vars, resume_vars, server_vars, calls, cfg, metrics, idx, record, provider, locals, exc>>

\* Mutant of Except: the success counter is bumped in the handler as well,
\* as a `finally` around the try block would.
ExceptCountsSuccess ==
  /\ pc = "except"
  /\ fs' = IF article_dir # None
           THEN [fs EXCEPT ![article_dir] = _cleanup_article_dir(@)]
           ELSE fs
  /\ metrics' =
       IF cfg.has_metrics /\ pdf_downloaded
       THEN [metrics EXCEPT ![PublisherLabel(record)].succeeded = @ + 1]
       ELSE metrics
  /\ obs' = [obs EXCEPT !.reports = @ + 1, !.status = "failed"]
  /\ pc' = IF cfg.raise_on_error THEN "raised" ELSE "loop"
  /\ UNCHANGED <<run_vars, resume_vars, server_vars, calls, cfg, idx, record, provider, locals, exc>>

\* except Exception as exc: clean up, log once, re-raise or continue.
Except ==
  /\ pc = "except"
  /\ fs' = IF article_dir # None
           THEN [fs EXCEPT ![article_dir] = _cleanup_article_dir(@)]
           ELSE fs
  /\ obs' = [obs EXCEPT !.reports = @ + 1, !.status = "failed"]
  /\ pc' = IF cfg.raise_on_error THEN "raised" ELSE "loop"
  /\ UNCHANGED <<run_vars, resume_vars, server_vars, calls, cfg, metrics, idx, record, provider, locals, exc>>

Next ==
  \/ NextRecord
  \/ Exhausted
  \/ ElsevierDownload
  \/ WileyDownload
  \/ SpringerDownload
  \/ CrossrefRoute
  \/ Unsupported
  \/ OpenAlexAttempt
  \/ CrossrefAttempt
  \/ Resolve
  \/ Supplements
  \/ Finish
  \/ Except

Spec == Init /\ [][Next]_vars

\* ------------------------------------------- a client called on its own

\* Largest number of consecutive download_pdf calls on one destination.
MaxCalls == 2

\* The library functions called directly: download_pdf of one client with one
\* identifier pair, one destination (the primary PDF of the directory
\* `article_dir`) and the same overwrite flag at every call, and
\* download_supplements_for_doi with keywords it declares.
ClientInit ==
  /\ cfg \in [clients : {ClientNames}, overwrite : BOOLEAN, raise_on_error : {FALSE},
              has_metrics : {FALSE}, delay_seconds : {0}]
  /\ provider \in ClientNames
  /\ record \in { ArticleRecord(provider, d, p) : d \in {None, DoiA}, p \in {None, PiiP} }
  /\ article_dir = _safe_identifier(DoiA)
  /\ fs \in InitialFs
  /\ metrics = [l \in {} |-> 0]
  /\ idx = 0
  /\ pc = "client"
  /\ pdf_downloaded = FALSE
  /\ tried = <<>>
  /\ success = FALSE
  /\ exc = NoExc
  /\ obs = NoObs
  /\ calls = <<>>
  /\ NoRun

\* client.download_pdf(doi=..., pii=..., destination=..., overwrite=...)
ClientCall ==
  /\ pc = "client"
  /\ Len(calls) < MaxCalls
  /\ \E o \in DownloadPdf(provider, record.doi, record.pii, fs[article_dir], cfg.overwrite) :
       /\ fs' = [fs EXCEPT ![article_dir] = o.dir]
       /\ calls' = Append(calls, [fn |-> "download_pdf", exc |-> o.exc, http |-> o.http,
                                  before |-> fs[article_dir], after |-> o.dir])
  /\ UNCHANGED <<run_vars, resume_vars, server_vars, cfg, metrics, idx, record, pc, provider, locals, exc, obs>>

\* download_supplements_for_doi(doi=..., destination_dir=..., overwrite=...)
SupplementCall ==
  /\ pc = "client"
  /\ Len(calls) < MaxCalls
  /\ \E o \in download_supplements_for_doi({"doi", "destination_dir", "overwrite"},
                                           record.doi, fs[article_dir]) :
       /\ fs' = [fs EXCEPT ![article_dir] = o.dir]
       /\ calls' = Append(calls, [fn |-> "download_supplements_for_doi", exc |-> o.exc,
                                  http |-> o.http, before |-> fs[article_dir],
                                  after |-> o.dir])
  /\ UNCHANGED <<run_vars, resume_vars, server_vars, cfg, metrics, idx, record, pc, provider, locals, exc, obs>>

ClientNext ==
  \/ ClientCall
  \/ SupplementCall

ClientSpec == ClientInit /\ [][ClientNext]_vars

\* ---------------------------------------------------------- downloader.py

\* What str.strip() removes, the characters with ord < 32, and the class
\* [\x21-\x7E] of DOI_PATTERN, within the characters the input texts use.
Whitespace == {" ", "\t", "\n"}

\* The character U+0001, which is a control character and no white space,
\* written as a token of its own.
Soh == "SOH"

ControlChars == {"\t", "\n", Soh}

\* Mutant of VisibleChars: the class of the pattern's suffix holds U+0001.
SuffixClassWithControl == SafePathChars \cup {"/", ";", Soh}

VisibleChars == SafePathChars \cup {"/", ";"}

\* s[i:].startswith(literal), i counted from 1.
StartsAt(s, i, literal) ==
  /\ i + Len(literal) - 1 <= Len(s)
  /\ SubSeq(s, i, i + Len(literal) - 1) = literal

\* str.startswith(prefix)
StartsWith(s, prefix) == StartsAt(s, 1, prefix)

\* The length of the longest run of characters of `class` that starts at s[i].
RECURSIVE RunLength(_, _, _)
RunLength(s, i, class) ==
  IF i <= Len(s) /\ s[i] \in class THEN 1 + RunLength(s, i + 1, class) ELSE 0

\* The length of the match of DOI_PATTERN, 10\.\d{4,9}/[\x21-\x7E]+, that
\* starts at s[i]; 0 when there is none.  \d{4,9} is greedy and a digit is
\* never a slash, so the slash has to follow the whole run of digits.
DoiPatternMatch(s, i) ==
  IF ~StartsAt(s, i, <<"1", "0", ".">>) THEN 0
  ELSE
    LET digits == RunLength(s, i + 3, Digits)
        slash  == i + 3 + digits
        suffix == RunLength(s, slash + 1, VisibleChars)
    IN  IF digits >= 4 /\ digits <= 9 /\ slash <= Len(s) /\ s[slash] = "/" /\ suffix >= 1
        THEN 3 + digits + 1 + suffix
        ELSE 0

\* DOI_PATTERN.finditer(text): the non-overlapping matches from left to right.
RECURSIVE FindIter(_, _)
FindIter(s, i) ==
  IF i > Len(s) THEN <<>>
  ELSE
    LET m == DoiPatternMatch(s, i)
    IN  IF m > 0
        THEN <<SubSeq(s, i, i + m - 1)>> \o FindIter(s, i + m)
        ELSE FindIter(s, i + 1)

\* candidate = match.group(0).strip(), then the trailing characters with
\* ord < 32 are cut off.
Candidate(match) == RStrip(Strip(match, Whitespace), ControlChars)

\* The loop of extract_dois: `seen` is the set of the entries of `found`.
RECURSIVE CollectDois(_, _)
CollectDois(matches, found) ==
  IF matches = <<>> THEN found
  ELSE
    LET candidate == Candidate(Head(matches))
    IN  IF candidate = <<>> \/ candidate \in Range(found)
        THEN CollectDois(Tail(matches), found)
        ELSE CollectDois(Tail(matches), Append(found, candidate))

\* Mutant of extract_dois: every match is appended, seen before or not.
ExtractKeepsRepeats(text) ==
  LET matches == FindIter(text, 1)
  IN  [i \in DOMAIN matches |-> Candidate(matches[i])]

extract_dois(text) == CollectDois(FindIter(text, 1), <<>>)

WILEY_PREFIXES ==
  { <<"1", "0", ".", "1", "0", "0", "2">>, <<"1", "0", ".", "1", "1", "1", "1">> }

\* Mutant of ELSEVIER_PREFIXES: the rare prefix 10.1011 is missing.
ElsevierMainPrefixOnly == { <<"1", "0", ".", "1", "0", "1", "6">> }

ELSEVIER_PREFIXES ==
  { <<"1", "0", ".", "1", "0", "1", "6">>, <<"1", "0", ".", "1", "0", "1", "1">> }

SPRINGER_PREFIXES ==
  { <<"1", "0", ".", "1", "0", "0", "7">>, <<"1", "0", ".", "1", "0", "3", "8">>,
    <<"1", "0", ".", "1", "1", "8", "6">> }

\* Mutant of classify_publisher: no fallback label, None for a DOI that no
\* prefix table lists.
ClassifyWithoutFallback(doi) ==
  LET lowered == Lower(doi)
  IN  IF \E prefix \in WILEY_PREFIXES : StartsWith(lowered, prefix) THEN "Wiley"
      ELSE IF \E prefix \in ELSEVIER_PREFIXES : StartsWith(lowered, prefix) THEN "Elsevier"
      ELSE IF \E prefix \in SPRINGER_PREFIXES : StartsWith(lowered, prefix) THEN "Springer"
      ELSE "None"

classify_publisher(doi) ==
  LET lowered == Lower(doi)
  IN  IF \E prefix \in WILEY_PREFIXES : StartsWith(lowered, prefix) THEN "Wiley"
      ELSE IF \E prefix \in ELSEVIER_PREFIXES : StartsWith(lowered, prefix) THEN "Elsevier"
      ELSE IF \E prefix \in SPRINGER_PREFIXES : StartsWith(lowered, prefix) THEN "Springer"
      ELSE "Crossref"

\* Mutant of records_from_dois: the records come out last DOI first.
RecordsInReverse(ds) ==
  [i \in 1..Len(ds) |->
     ArticleRecord(classify_publisher(ds[Len(ds) + 1 - i]), ds[Len(ds) + 1 - i], None)]

\* records_from_dois: a DOI whose classification is falsy is skipped.
RECURSIVE records_from_dois(_)
records_from_dois(ds) ==
  IF ds = <<>> THEN <<>>
  ELSE
    LET publisher == classify_publisher(Head(ds))
    IN  IF publisher = "None"
        THEN records_from_dois(Tail(ds))
        ELSE <<ArticleRecord(publisher, Head(ds), None)>> \o records_from_dois(Tail(ds))

\* The loop of _limit_records_per_publisher: counts[key] is the number of
\* records with that key appended to `limited` so far.
RECURSIVE LimitLoop(_, _, _)
LimitLoop(recs, max_per_publisher, limited) ==
  IF recs = <<>> THEN limited
  ELSE
    LET publisher_key == Lower(LabelChars(Head(recs).publisher))
        count == Cardinality({ i \in DOMAIN limited :
                               Lower(LabelChars(limited[i].publisher)) = publisher_key })
    IN  IF count >= max_per_publisher
        THEN LimitLoop(Tail(recs), max_per_publisher, limited)
        ELSE LimitLoop(Tail(recs), max_per_publisher, Append(limited, Head(recs)))

\* Mutant of _limit_records_per_publisher: the comparison is off by one.
LimitOffByOne(recs, max_per_publisher) == LimitLoop(recs, max_per_publisher + 1, <<>>)

_limit_records_per_publisher(recs, max_per_publisher) ==
  LimitLoop(recs, max_per_publisher, <<>>)

\* ------------------------------------------------- download_from_savedrecs

\* Largest number of DOI mentions in the input of a run.
MaxDois == 3

\* DOIs of the publishers' prefixes, two of them Wiley's, and one no prefix
\* table lists.
WileyDoi == <<"1", "0", ".", "1", "0", "0", "2", "/", "a">>

WileyDoi2 == <<"1", "0", ".", "1", "1", "1", "1", "/", "a">>

ElsevierDoi == <<"1", "0", ".", "1", "0", "1", "6", "/", "a">>

SpringerDoi == <<"1", "0", ".", "1", "0", "0", "7", "/", "a">>

OtherDoi == <<"1", "0", ".", "5", "5", "5", "5", "/", "a">>

RECURSIVE SeqsUpTo(_, _)
SeqsUpTo(S, n) ==
  IF n = 0 THEN { <<>> }
  ELSE LET shorter == SeqsUpTo(S, n - 1)
       IN  shorter \cup { Append(s, x) : s \in shorter, x \in S }

\* The DOI mentions of an input, in order, repetitions included.
DoiMentions ==
  SeqsUpTo({WileyDoi, WileyDoi2, ElsevierDoi, SpringerDoi, OtherDoi}, MaxDois)

\* A savedrecs export that mentions the given DOIs, one per line.
RECURSIVE Savedrecs(_)
Savedrecs(mentions) ==
  IF mentions = <<>> THEN <<>> ELSE Head(mentions) \o <<"\n">> \o Savedrecs(Tail(mentions))

\* The environment variables each client's constructor reads its credential
\* from; a constructor raises ValueError when none of them is set.
CredentialNames(who) ==
  CASE who = "Wiley"    -> {"WILEY_TDM_TOKEN"}
    [] who = "Elsevier" -> {"ELSEVIER_API_KEY"}
    [] who = "Springer" -> {"SPRINGER_API_KEY", "SPRINGER_NATURE_API_KEY"}
    [] who = "Crossref" -> {"CROSSREF_MAILTO"}
    [] who = "OpenAlex" -> {"OPENALEX_MAILTO"}

AllCredentials ==
  {"WILEY_TDM_TOKEN", "ELSEVIER_API_KEY", "SPRINGER_API_KEY", "CROSSREF_MAILTO",
   "OPENALEX_MAILTO"}

\* The credentials set in the process environment when a run starts.
Environments ==
  { AllCredentials,
    {},
    {"WILEY_TDM_TOKEN"},
    AllCredentials \ {"ELSEVIER_API_KEY"},
    AllCredentials \ {"CROSSREF_MAILTO"},
    AllCredentials \ {"OPENALEX_MAILTO"} }

\* The credentials a .env file in the working directory may hold.
DotenvFiles == { {}, {"ELSEVIER_API_KEY"} }

\* load_env_file: a key of the file is set unless the environment has it.
load_env_file(env, dotenv) == env \cup dotenv

\* Whether Client() returns instead of raising ValueError.
Constructs(who, env) == CredentialNames(who) \cap env # {}

\* The keyword parameters batched_download declares.
BatchedDownloadParameters ==
  {"records", "output_root", "elsevier_client", "crossref_client", "openalex_client",
   "springer_client", "wiley_client", "overwrite", "delay_seconds", "raise_on_error",
   "metrics"}

\* The keyword arguments download_from_savedrecs passes to batched_download.
BatchedDownloadKeywords ==
  {"records", "output_root", "elsevier_client", "crossref_client", "openalex_client",
   "unpaywall_client", "springer_client", "wiley_client", "overwrite", "delay_seconds",
   "raise_on_error", "metrics"}

\* The arguments of a run: the entry point, its input (the text of the
\* export, or the DOI list), the .env file found, and the options;
\* max_per_publisher is None (capped is FALSE) or 1.  The DOI list comes
\* with load_env=False.
RunArguments ==
  { [entry |-> "savedrecs", input |-> Savedrecs(m), dotenv |-> f,
     capped |-> c # 0, max_per_publisher |-> c, dry_run |-> d] :
      m \in DoiMentions, f \in DotenvFiles, c \in {0, 1}, d \in BOOLEAN }
  \cup
  { [entry |-> "dois", input |-> m, dotenv |-> {},
     capped |-> c # 0, max_per_publisher |-> c, dry_run |-> d] :
      m \in DoiMentions, c \in {0, 1}, d \in BOOLEAN }

\* batched_download's defaults: nothing has been passed to it yet.
NotCalled ==
  [clients |-> {}, overwrite |-> FALSE, raise_on_error |-> TRUE, has_metrics |-> FALSE,
   delay_seconds |-> 0]

RunInit ==
  /\ args \in RunArguments
  /\ environ \in Environments
  /\ dois = <<>>
  /\ records = <<>>
  /\ constructed = {}
  /\ disabled_publishers = <<>>
  /\ output_dir = FALSE
  /\ NoResume
  /\ NoServer
  /\ pc = "run"
  /\ cfg = NotCalled
  /\ fs = [n \in DirNames |-> AbsentDir]
  /\ metrics = [l \in {} |-> 0]
  /\ idx = 0
  /\ record = NoRecord
  /\ provider = "none"
  /\ article_dir = None
  /\ pdf_downloaded = FALSE
  /\ tried = <<>>
  /\ success = FALSE
  /\ exc = NoExc
  /\ obs = NoObs
  /\ calls = <<>>

batched_state ==
  <<cfg, fs, metrics, idx, record, provider, locals, exc, obs, calls>>

\* The head of download_from_savedrecs and of download_from_dois, after the
\* DOIs were obtained: the records, the optional cap, and the early return
\* for an empty plan.
PlanRecords(found) ==
  LET planned == records_from_dois(found)
      limited == IF args.capped
                 THEN _limit_records_per_publisher(planned, args.max_per_publisher)
                 ELSE planned
  IN  /\ dois' = found
      /\ records' = limited
      /\ pc' = IF limited = <<>> THEN "returned" ELSE "configure"
      /\ UNCHANGED <<resume_vars, server_vars, args, constructed, disabled_publishers, output_dir, batched_state>>

\* download_from_savedrecs, from load_env_file() to the first `return iter(())`.
PlanFromSavedrecs ==
  /\ pc = "run"
  /\ args.entry = "savedrecs"
  /\ environ' = load_env_file(environ, args.dotenv)
  /\ PlanRecords(extract_dois(args.input))

\* download_from_dois(dois=..., load_env=False): the supplied list,
\* deduplicated in first-seen order, takes the place of the extracted DOIs.
PlanFromDois ==
  /\ pc = "run"
  /\ args.entry = "dois"
  /\ environ' = environ
  /\ PlanRecords(CollectDois(args.input, <<>>))

\* has_records(publisher_name)
has_records(publisher_name) ==
  \E i \in DOMAIN records : records[i].publisher = publisher_name

\* download_from_savedrecs, from `disabled_publishers = []` to the second
\* `return iter(())`: a client is constructed for each publisher that has
\* records; a publisher whose client raised ValueError is disabled and its
\* records leave the plan; the Crossref label is disabled only when neither
\* CrossrefClient nor OpenAlexClient could be constructed.  (The value of
\* unpaywall_client plays no part in what follows.)
ConstructClients ==
  /\ pc = "configure"
  /\ LET wanted == { who \in {"Wiley", "Elsevier", "Springer"} : has_records(who) }
                   \cup (IF has_records("Crossref") THEN {"Crossref", "OpenAlex"} ELSE {})
         built  == { who \in wanted : Constructs(who, environ) }
         off(p) == IF p = "Crossref"
                   THEN has_records(p) /\ built \cap {"Crossref", "OpenAlex"} = {}
                   ELSE has_records(p) /\ p \notin built
         kept   == SelectSeq(records, LAMBDA rec : ~off(rec.publisher))
     IN  /\ constructed' = built
         /\ disabled_publishers' =
              SelectSeq(<<"Wiley", "Elsevier", "Springer", "Crossref">>, off)
         /\ records' = kept
         /\ pc' = IF kept = <<>> THEN "returned" ELSE "launch"
  /\ UNCHANGED <<resume_vars, server_vars, args, environ, dois, output_dir, batched_state>>

\* enforced_delay = max(delay_seconds, 1.0), in seconds.
EnforcedDelay(delay_seconds) == IF delay_seconds > 1 THEN delay_seconds ELSE 1

\* Mutant of Launch: the output directory is created before dry_run is read.
LaunchCreatesDirectoryFirst ==
  /\ pc = "launch"
  /\ output_dir' = TRUE
  /\ IF args.dry_run
     THEN /\ pc' = "returned"
          /\ UNCHANGED <<cfg, exc>>
     ELSE \E delay_seconds \in {0, 2} :
            /\ cfg' = [clients |-> constructed, overwrite |-> FALSE,
                       raise_on_error |-> FALSE, has_metrics |-> TRUE,
                       delay_seconds |-> EnforcedDelay(delay_seconds)]
            /\ IF BatchedDownloadKeywords \subseteq BatchedDownloadParameters
               THEN pc' = "stream" /\ exc' = exc
               ELSE pc' = "raised" /\ exc' = Exc("TypeError", "unexpected keyword argument")
  /\ UNCHANGED <<resume_vars, server_vars, args, environ, dois, records, constructed, disabled_publishers,
                 fs, metrics, idx, record, provider, locals, obs, calls>>

\* download_from_savedrecs, from the plan summary to its end: a dry run
\* returns an empty iterator; otherwise the output directory is created and
\* batched_download is called with raise_on_error=False and a fresh metrics
\* dict.  Python binds the keywords when the generator function is called,
\* so an undeclared keyword raises TypeError there, outside the reach of
\* `except DownloadError`.
Launch ==
  /\ pc = "launch"
  /\ IF args.dry_run
     THEN /\ pc' = "returned"
          /\ UNCHANGED <<output_dir, cfg, exc>>
     ELSE \E delay_seconds \in {0, 2} :
            /\ output_dir' = TRUE
            /\ cfg' = [clients |-> constructed, overwrite |-> FALSE,
                       raise_on_error |-> FALSE, has_metrics |-> TRUE,
                       delay_seconds |-> EnforcedDelay(delay_seconds)]
            /\ IF BatchedDownloadKeywords \subseteq BatchedDownloadParameters
               THEN pc' = "stream" /\ exc' = exc
               ELSE pc' = "raised" /\ exc' = Exc("TypeError", "unexpected keyword argument")
  /\ UNCHANGED <<resume_vars, server_vars, args, environ, dois, records, constructed, disabled_publishers,
                 fs, metrics, idx, record, provider, locals, obs, calls>>

\* batched_download called by itself the way download_from_savedrecs means
\* to call it: raise_on_error=False, a metrics dict, no overwrite.
DirectInit ==
  /\ Init
  /\ ~cfg.raise_on_error
  /\ cfg.has_metrics
  /\ ~cfg.overwrite
  /\ cfg.delay_seconds = 1

RunEntry == RunInit \/ DirectInit

RunNext ==
  \/ PlanFromSavedrecs
  \/ PlanFromDois
  \/ ConstructClients
  \/ Launch
  \/ Next

RunSpec == RunEntry /\ [][RunNext]_vars

\* -------------------------------------------------- extract_dois by itself

\* Largest number of fragments an input text is put together from.
MaxFragments == 3

\* Pieces of text: a DOI followed by a blank, by a tab or by U+0001, the
\* same DOI in upper case, a DOI with nothing after it (whatever visible
\* text follows is matched with it), a token with too few digits after
\* "10.", and a visible character.
Fragments ==
  { WileyDoi \o <<" ">>,
    WileyDoi \o <<"\t">>,
    WileyDoi \o <<Soh>>,
    OtherDoi \o <<" ">>,
    <<"1", "0", ".", "1", "0", "0", "2", "/", "A", " ">>,
    WileyDoi,
    <<"1", "0", ".", "1", "2", "/", "a", " ">>,
    <<";">> }

RECURSIVE Concat(_)
Concat(parts) == IF parts = <<>> THEN <<>> ELSE Head(parts) \o Concat(Tail(parts))

Texts == { Concat(parts) : parts \in SeqsUpTo(Fragments, MaxFragments) }

ExtractInit ==
  /\ args \in { [entry |-> "extract_dois", input |-> t] : t \in Texts }
  /\ environ = {}
  /\ dois = <<>>
  /\ records = <<>>
  /\ constructed = {}
  /\ disabled_publishers = <<>>
  /\ output_dir = FALSE
  /\ NoResume
  /\ NoServer
  /\ pc = "call"
  /\ cfg = NotCalled
  /\ fs = [n \in DirNames |-> AbsentDir]
  /\ metrics = [l \in {} |-> 0]
  /\ idx = 0
  /\ record = NoRecord
  /\ provider = "none"
  /\ article_dir = None
  /\ pdf_downloaded = FALSE
  /\ tried = <<>>
  /\ success = FALSE
  /\ exc = NoExc
  /\ obs = NoObs
  /\ calls = <<>>

\* dois = extract_dois(savedrecs)
ExtractCall ==
  /\ pc = "call"
  /\ dois' = extract_dois(args.input)
  /\ pc' = "returned"
  /\ UNCHANGED <<resume_vars, server_vars, args, environ, records, constructed, disabled_publishers, output_dir,
                 batched_state>>

ExtractNext == ExtractCall

ExtractSpec == ExtractInit /\ [][ExtractNext]_vars

\* ------------------- classify_publisher and records_from_dois by themselves

\* A DOI of Elsevier's second prefix, and one whose registrant code, 10020,
\* begins with Wiley's 1002.
ElsevierDoi2 == <<"1", "0", ".", "1", "0", "1", "1", "/", "a">>

LongRegistrantDoi == <<"1", "0", ".", "1", "0", "0", "2", "0", "/", "a">>

ClassifierDois ==
  {WileyDoi, WileyDoi2, ElsevierDoi, ElsevierDoi2, SpringerDoi, OtherDoi, LongRegistrantDoi}

ClassifyInit ==
  /\ args \in { [entry |-> "classify_publisher", input |-> d] : d \in ClassifierDois }
             \cup { [entry |-> "records_from_dois", input |-> ds] :
                       ds \in SeqsUpTo(ClassifierDois, MaxDois) }
  /\ environ = {}
  /\ dois = <<>>
  /\ records = <<>>
  /\ constructed = {}
  /\ disabled_publishers = <<>>
  /\ output_dir = FALSE
  /\ NoResume
  /\ NoServer
  /\ pc = "call"
  /\ cfg = NotCalled
  /\ fs = [n \in DirNames |-> AbsentDir]
  /\ metrics = [l \in {} |-> 0]
  /\ idx = 0
  /\ record = NoRecord
  /\ provider = "none"
  /\ article_dir = None
  /\ pdf_downloaded = FALSE
  /\ tried = <<>>
  /\ success = FALSE
  /\ exc = NoExc
  /\ obs = NoObs
  /\ calls = <<>>

\* classify_publisher(doi)
ClassifyCall ==
  /\ pc = "call"
  /\ args.entry = "classify_publisher"
  /\ calls' = Append(calls, [fn |-> "classify_publisher",
                             returned |-> classify_publisher(args.input)])
  /\ pc' = "returned"
  /\ UNCHANGED <<run_vars, resume_vars, server_vars, cfg, fs, metrics, idx, record, provider, locals, exc, obs>>

\* records_from_dois(dois)
RecordsCall ==
  /\ pc = "call"
  /\ args.entry = "records_from_dois"
  /\ calls' = Append(calls, [fn |-> "records_from_dois",
                             returned |-> records_from_dois(args.input)])
  /\ pc' = "returned"
  /\ UNCHANGED <<run_vars, resume_vars, server_vars, cfg, fs, metrics, idx, record, provider, locals, exc, obs>>

ClassifyNext ==
  \/ ClassifyCall
  \/ RecordsCall

ClassifySpec == ClassifyInit /\ [][ClassifyNext]_vars

\* ---------------------------------------------------- the resilience layer

\* Largest number of records in a batch that is run with a checkpoint.
MaxBatch == 3

\* What the checkpoint file holds when a run starts: nothing readable, or
\* the last_completed_index an earlier run of the same batch wrote.
Checkpoints(total) == {Unreadable} \cup { Checkpoint(k) : k \in 0..(total - 1) }

ResumeInit ==
  /\ \E total \in 1..MaxBatch :
       /\ args = [entry |-> "resume", total |-> total]
       /\ checkpoint \in Checkpoints(total)
  /\ ledger = <<>>
  /\ position = 0
  /\ environ = {}
  /\ dois = <<>>
  /\ records = <<>>
  /\ constructed = {}
  /\ disabled_publishers = <<>>
  /\ output_dir = TRUE
  /\ pc = "resume"
  /\ cfg \in [clients : {ClientNames, {"Wiley"}}, overwrite : {FALSE},
              raise_on_error : {FALSE}, has_metrics : {TRUE}, delay_seconds : {1}]
  /\ fs = [n \in DirNames |-> AbsentDir]
  /\ metrics = [l \in {} |-> 0]
  /\ idx = 0
  /\ record = NoRecord
  /\ provider = "none"
  /\ article_dir = None
  /\ pdf_downloaded = FALSE
  /\ tried = <<>>
  /\ success = FALSE
  /\ exc = NoExc
  /\ obs = NoObs
  /\ calls = <<>>
  /\ NoServer

\* Mutant of StartIndex: the checkpoint's index itself is where the run
\* starts.
StartAtCheckpoint(found) ==
  IF found.readable THEN found.last_completed_index ELSE 0

\* Resume mode: the index after the checkpoint's last completed index, or 0
\* when the checkpoint is unreadable.
StartIndex(found) ==
  IF found.readable THEN found.last_completed_index + 1 ELSE 0

\* The resumed run reads the checkpoint and hands the first record that is
\* left, if any, to the orchestrator.
ReadCheckpoint ==
  /\ pc = "resume"
  /\ position' = StartIndex(checkpoint)
  /\ pc' = IF StartIndex(checkpoint) < args.total THEN "loop" ELSE "finished"
  /\ UNCHANGED <<run_vars, server_vars, checkpoint, ledger, batched_state>>

\* batched_download running on the one record at `position`: the steps of
\* Next, the record list being that record alone.
ProcessRecord ==
  /\ args.entry = "resume"
  /\ \/ pc = "loop" /\ idx = 0 /\ NextRecord
     \/ pc = "loop" /\ idx = 1 /\ Exhausted
     \/ pc # "loop" /\ Next

\* Mutant of WriteCheckpoint: only a record that yielded a path is written
\* to the checkpoint.
WriteCheckpointOnSuccessOnly ==
  /\ args.entry = "resume"
  /\ pc = "done"
  /\ ledger' = Append(ledger, [index |-> position,
                               outcome |-> IF obs.yields # <<>> THEN "success" ELSE "failure"])
  /\ checkpoint' = IF obs.yields # <<>> THEN Checkpoint(position) ELSE checkpoint
  /\ position' = position + 1
  /\ idx' = 0
  /\ pc' = IF position + 1 < args.total THEN "loop" ELSE "finished"
  /\ UNCHANGED <<run_vars, server_vars, cfg, fs, metrics, record, provider, locals, exc, obs, calls>>

\* The record at `position` is fully processed: a line goes to the success
\* or the failure ledger, the checkpoint is rewritten with its index, and
\* the next record, if any, is handed to the orchestrator.
WriteCheckpoint ==
  /\ args.entry = "resume"
  /\ pc = "done"
  /\ ledger' = Append(ledger, [index |-> position,
                               outcome |-> IF obs.yields # <<>> THEN "success" ELSE "failure"])
  /\ checkpoint' = Checkpoint(position)
  /\ position' = position + 1
  /\ idx' = 0
  /\ pc' = IF position + 1 < args.total THEN "loop" ELSE "finished"
  /\ UNCHANGED <<run_vars, server_vars, cfg, fs, metrics, record, provider, locals, exc, obs, calls>>

ResumeNext ==
  \/ ReadCheckpoint
  \/ ProcessRecord
  \/ WriteCheckpoint

ResumeSpec == ResumeInit /\ [][ResumeNext]_vars

\* ------------------------------------------ _article_destination by itself

\* What an article directory may hold when _article_destination is called:
\* it is absent, or it exists with or without a primary PDF, a legacy
\* article.pdf and a supplementary file.
DirContents ==
  {AbsentDir}
  \cup [exists : {TRUE}, pdf : {NoFile, "earlier"}, legacy : {NoFile, "legacy"},
        supp : {0, 1}]

DestinationInit ==
  /\ args = [entry |-> "_article_destination"]
  /\ fs \in [DirNames -> DirContents]
  /\ environ = {}
  /\ dois = <<>>
  /\ records = <<>>
  /\ constructed = {}
  /\ disabled_publishers = <<>>
  /\ output_dir = TRUE
  /\ NoResume
  /\ NoServer
  /\ pc = "call"
  /\ cfg = NotCalled
  /\ metrics = [l \in {} |-> 0]
  /\ idx = 0
  /\ record = NoRecord
  /\ provider = "none"
  /\ article_dir = None
  /\ pdf_downloaded = FALSE
  /\ tried = <<>>
  /\ success = FALSE
  /\ exc = NoExc
  /\ obs = NoObs
  /\ calls = <<>>

\* pdf_path = _article_destination(article_dir, fname)
ArticleDestinationCall ==
  /\ pc = "call"
  /\ args.entry = "_article_destination"
  /\ Len(calls) < MaxCalls
  /\ \E n \in DirNames :
       /\ fs' = [fs EXCEPT ![n] = _article_destination(@)]
       /\ calls' = Append(calls, [fn |-> "_article_destination", dir |-> n,
                                  before |-> fs[n], after |-> _article_destination(fs[n])])
  /\ UNCHANGED <<run_vars, resume_vars, server_vars, cfg, metrics, idx, record, pc, provider, locals,
                 exc, obs>>

DestinationNext == ArticleDestinationCall

DestinationSpec == DestinationInit /\ [][DestinationNext]_vars

\* ------------------------- CrossrefClient and OpenAlexClient, call by call

\* Largest number of license entries of a Crossref work, and of entries of
\* the `locations` list of an OpenAlex work.
MaxLicenses == 2
MaxLocations == 2

\* DEFAULT_CROSSREF_REQUEST_DELAY
DefaultCrossrefRequestDelay == 2

\* An optional number: the request_delay argument (None when not given) and
\* the CROSSREF_REQUEST_DELAY variable (unset or empty, a number, or text
\* float() rejects).
Unset == [kind |-> "unset", value |-> 0]
Number(v) == [kind |-> "number", value |-> v]
Invalid == [kind |-> "invalid", value |-> 0]

\* A safelist entry and license URLs: one that starts with the entry up to
\* case, one that does not, and a missing URL.
AllowedPrefix == <<"C", "c">>
AllowedUrl == <<"c", "C", "/", "b">>
OtherUrl == <<"c", "/", "b">>

\* CrossrefClient.__init__: the lower-cased safelist (None when empty) and
\* the request delay.  env_safelist is CROSSREF_LICENSE_SAFELIST split at the
\* commas, without its empty entries.
CrossrefClient_init(license_safelist, env_safelist, request_delay, delay_env) ==
  LET safelist == license_safelist \o env_safelist
      delay_value == IF delay_env.kind = "number" THEN delay_env.value
                     ELSE IF request_delay.kind = "number" THEN request_delay.value
                     ELSE DefaultCrossrefRequestDelay
  IN  [_license_safelist |-> [i \in DOMAIN safelist |-> Lower(safelist[i])],
       _request_delay |-> IF delay_value > 0 THEN delay_value ELSE 0]

\* The clients a caller can have constructed.
CrossrefClients ==
  { CrossrefClient_init(l, e, r, v) :
      l \in {None, <<AllowedPrefix>>}, e \in {None, <<AllowedPrefix>>},
      r \in {Unset, Number(0)}, v \in {Unset, Invalid, Number(0)} }

\* Mutant of _throttle: it never sleeps.
ThrottleNeverSleeps(self, http) == http

\* self._throttle(): time.sleep(self._request_delay) when the delay is
\* positive.
_throttle(self, http) ==
  IF self._request_delay > 0 THEN Append(http, "sleep") ELSE http

\* The clock: datetime.now(timezone.utc), and the dates a license can start.
Now == 1
Times == 0..2

\* The `start` of a license entry: missing, a date, or a timestamp or
\* date-parts that datetime rejects.
NoStart == [kind |-> "none", at |-> 0]
StartAt(t) == [kind |-> "date", at |-> t]
Undatable == [kind |-> "undatable", at |-> 0]

\* The license entries of a work: the URL that matches the safelist with every
\* kind of start, and an entry in force whose URL does not match or is missing.
LicenseEntries ==
  [URL : {AllowedUrl}, start : {NoStart, Undatable} \cup { StartAt(t) : t \in Times }]
  \cup [URL : {OtherUrl, None}, start : {StartAt(0)}]

\* Mutant of _is_license_active: the start date is not looked at.
LicenseAlwaysActive(entry, now) == TRUE

\* CrossrefClient._is_license_active
_is_license_active(entry, now) ==
  IF entry.start.kind = "none" THEN TRUE
  ELSE IF entry.start.kind = "undatable" THEN TRUE
  ELSE entry.start.at <= now

\* CrossrefClient._license_allowed
_license_allowed(self, work, now) ==
  IF self._license_safelist = None THEN TRUE
  ELSE IF work.license = <<>> THEN FALSE
  ELSE \E i \in DOMAIN work.license :
         LET url == Lower(work.license[i].URL)
         IN  /\ url # None
             /\ _is_license_active(work.license[i], now)
             /\ \E j \in DOMAIN self._license_safelist :
                  StartsWith(url, self._license_safelist[j])

\* The entries of work["link"]: a PDF link for text mining, a PDF link for
\* another use, and a link to another content type.  "" stands for None.
TdmLink == [content_type |-> "application/pdf", URL |-> "tdm",
            intended_application |-> "text-mining"]
PdfLink == [content_type |-> "application/pdf", URL |-> "pdf",
            intended_application |-> "similarity-checking"]
HtmlLink == [content_type |-> "text/html", URL |-> "html",
             intended_application |-> "text-mining"]

LinkLists == { <<>>, <<HtmlLink>>, <<PdfLink, TdmLink>> }

\* CrossrefClient._preferred_link: the stable sort by priority puts the
\* first text-mining PDF link first, then the first other PDF link.
_preferred_link(links) ==
  LET pdf == { i \in DOMAIN links :
                 links[i].content_type = "application/pdf" /\ links[i].URL # "" }
      tdm == { i \in pdf : links[i].intended_application = "text-mining" }
      First(S) == CHOOSE i \in S : \A j \in S : i <= j
  IN  IF pdf = {} THEN ""
      ELSE IF tdm # {} THEN links[First(tdm)].URL
      ELSE links[First(pdf)].URL

\* CrossrefClient._select_pdf_url
_select_pdf_url(work) == _preferred_link(work.link)

\* What the HEAD request against the resolver does: it raises, answers with
\* another status than 200, answers without a PDF entry in its Link header,
\* or names a PDF.
HeadResponses == {"raises", "404", "no pdf", "pdf"}

\* CrossrefClient._extract_pdf_from_link_header: the requests it makes and
\* the URL it returns.
_extract_pdf_from_link_header(self, head, http) ==
  [http |-> Append(_throttle(self, http), "head"),
   url |-> IF head = "pdf" THEN "header" ELSE ""]

\* The works the metadata lookup can return.
CrossrefWorks ==
  [license : SeqsUpTo(LicenseEntries, MaxLicenses), link : LinkLists]

\* What the network answers to one download_pdf call of the Crossref client.
\* The answer to the HEAD request varies for the works that have no usable
\* link only.
CrossrefAnswers ==
  [metadata : {"raises", "503"}, work : {[license |-> <<>>, link |-> <<>>]},
   head : {"404"}]
  \cup UNION { { [metadata |-> "200", work |-> w, head |-> h] :
                   h \in IF _select_pdf_url(w) = "" THEN HeadResponses ELSE {"404"} } :
                 w \in CrossrefWorks }

\* CrossrefClient.download_pdf with the client's state and the answers of
\* the network: _fetch_work_metadata, _license_allowed, _select_pdf_url,
\* _extract_pdf_from_link_header, then the content request.
CrossrefDownloadPdf(self, net, doi, d, overwrite) ==
  LET fetched == Append(_throttle(self, <<>>), "metadata")
      selected == _select_pdf_url(net.work)
      header == _extract_pdf_from_link_header(self, net.head, fetched)
      pdf_url == IF selected # "" THEN selected ELSE header.url
      looked == IF selected # "" THEN fetched ELSE header.http
  IN  IF doi = None THEN { Outcome(Exc("ValueError", ""), <<>>, d) }
      ELSE IF ExistingShortcut(d, overwrite) THEN { Outcome(NoExc, <<>>, d) }
      ELSE IF net.metadata = "raises" THEN { Outcome(RequestException, fetched, d) }
      ELSE IF net.metadata # "200"
        THEN { Outcome(DownloadError("Crossref metadata lookup failed"), fetched, d) }
      ELSE IF ~_license_allowed(self, net.work, Now)
        THEN { Outcome(DownloadError("Crossref license not in allowed safelist"), fetched, d) }
      ELSE IF pdf_url = ""
        THEN { Outcome(DownloadError("No PDF link found via Crossref"), looked, d) }
      ELSE ContentRequest("Crossref", d, _throttle(self, looked), {"Crossref download failed"})

\* A location of an OpenAlex work: its pdf_url and url_for_pdf ("" for a
\* missing or empty one).
Locations ==
  { [pdf_url |-> p, url_for_pdf |-> q] : p \in {"", "p1", "p2"}, q \in {"", "q"} }

\* work["best_oa_location"] when it is not a dict.
NoLocation == [pdf_url |-> "", url_for_pdf |-> ""]

\* The works the OpenAlex lookup can return: open_access missing, or with
\* is_oa false or true.
OpenAlexWorks ==
  [open_access : {"missing", "closed", "open"},
   best_oa_location : Locations,
   locations : SeqsUpTo(Locations, MaxLocations)]

OpenAlexAnswers ==
  [metadata : {"raises", "503"},
   work : {[open_access |-> "missing", best_oa_location |-> NoLocation, locations |-> <<>>]}]
  \cup [metadata : {"200"}, work : OpenAlexWorks]

\* OpenAlexClient._is_open_access
_is_open_access(work) == work.open_access = "open"

\* add_location of _extract_pdf_url: the candidate a location contributes.
add_location(loc) ==
  LET pdf_url == IF loc.pdf_url # "" THEN loc.pdf_url ELSE loc.url_for_pdf
  IN  IF pdf_url # "" THEN <<pdf_url>> ELSE <<>>

RECURSIVE LocationCandidates(_)
LocationCandidates(locs) ==
  IF locs = <<>> THEN <<>>
  ELSE add_location(Head(locs)) \o LocationCandidates(Tail(locs))

\* Mutant of _extract_pdf_url: the listed locations come before the best one.
ExtractListedFirst(work) ==
  LET candidates == LocationCandidates(work.locations) \o add_location(work.best_oa_location)
  IN  IF candidates # <<>> THEN candidates[1] ELSE ""

\* OpenAlexClient._extract_pdf_url
_extract_pdf_url(work) ==
  LET candidates == add_location(work.best_oa_location) \o LocationCandidates(work.locations)
  IN  IF candidates # <<>> THEN candidates[1] ELSE ""

\* OpenAlexClient.download_pdf with the answers of the network; `url` is the
\* address of the content request ("" when there is none).
OpenAlexDownloadPdf(net, doi, d, overwrite) ==
  LET At(outcomes, url) ==
        { [exc |-> o.exc, http |-> o.http, dir |-> o.dir, url |-> url] : o \in outcomes }
      pdf_url == _extract_pdf_url(net.work)
  IN  IF doi = None THEN At({ Outcome(Exc("ValueError", ""), <<>>, d) }, "")
      ELSE IF ExistingShortcut(d, overwrite) THEN At({ Outcome(NoExc, <<>>, d) }, "")
      ELSE IF net.metadata = "raises"
        THEN At({ Outcome(RequestException, <<"metadata">>, d) }, "")
      ELSE IF net.metadata # "200"
        THEN At({ Outcome(DownloadError("OpenAlex metadata lookup failed"),
                          <<"metadata">>, d) }, "")
      ELSE IF ~_is_open_access(net.work)
        THEN At({ Outcome(DownloadError("OpenAlex reports DOI is not open access"),
                          <<"metadata">>, d) }, "")
      ELSE IF pdf_url = ""
        THEN At({ Outcome(DownloadError("No open-access PDF URL available via OpenAlex"),
                          <<"metadata">>, d) }, "")
      ELSE At(ContentRequest("OpenAlex", d, <<"metadata">>, {"OpenAlex download failed"}),
              pdf_url)

\* One download_pdf call of a Crossref or an OpenAlex client on the primary
\* PDF of the directory `article_dir`; args holds the client.
MetadataClientInit ==
  /\ provider \in {"Crossref", "OpenAlex"}
  /\ args \in IF provider = "Crossref"
              THEN [entry : {"CrossrefClient.download_pdf"}, self : CrossrefClients]
              ELSE [entry : {"OpenAlexClient.download_pdf"}]
  /\ cfg \in [clients : {{provider}}, overwrite : BOOLEAN, raise_on_error : {FALSE},
              has_metrics : {FALSE}, delay_seconds : {0}]
  /\ record \in { ArticleRecord("Crossref", d, None) : d \in {None, DoiA} }
  /\ article_dir = _safe_identifier(DoiA)
  /\ fs \in { [n \in DirNames |-> AbsentDir],
              [n \in DirNames |-> IF n = article_dir
                                  THEN [AbsentDir EXCEPT !.exists = TRUE, !.pdf = "earlier"]
                                  ELSE AbsentDir] }
  /\ environ = {}
  /\ dois = <<>>
  /\ records = <<>>
  /\ constructed = {}
  /\ disabled_publishers = <<>>
  /\ output_dir = TRUE
  /\ NoResume
  /\ NoServer
  /\ pc = "call"
  /\ metrics = [l \in {} |-> 0]
  /\ idx = 0
  /\ pdf_downloaded = FALSE
  /\ tried = <<>>
  /\ success = FALSE
  /\ exc = NoExc
  /\ obs = NoObs
  /\ calls = <<>>

\* crossref_client.download_pdf(doi=..., destination=..., overwrite=...)
CrossrefCall ==
  /\ pc = "call"
  /\ args.entry = "CrossrefClient.download_pdf"
  /\ \E net \in CrossrefAnswers :
       \E o \in CrossrefDownloadPdf(args.self, net, record.doi, fs[article_dir], cfg.overwrite) :
         /\ fs' = [fs EXCEPT ![article_dir] = o.dir]
         /\ calls' = Append(calls, [fn |-> "CrossrefClient.download_pdf", net |-> net,
                                    exc |-> o.exc, http |-> o.http])
  /\ pc' = "returned"
  /\ UNCHANGED <<run_vars, resume_vars, server_vars, cfg, metrics, idx, record, provider, locals, exc, obs>>

\* openalex_client.download_pdf(doi=..., destination=..., overwrite=...)
OpenAlexCall ==
  /\ pc = "call"
  /\ args.entry = "OpenAlexClient.download_pdf"
  /\ \E net \in OpenAlexAnswers :
       \E o \in OpenAlexDownloadPdf(net, record.doi, fs[article_dir], cfg.overwrite) :
         /\ fs' = [fs EXCEPT ![article_dir] = o.dir]
         /\ calls' = Append(calls, [fn |-> "OpenAlexClient.download_pdf", net |-> net,
                                    exc |-> o.exc, http |-> o.http, url |-> o.url])
  /\ pc' = "returned"
  /\ UNCHANGED <<run_vars, resume_vars, server_vars, cfg, metrics, idx, record, provider, locals, exc, obs>>

MetadataClientNext ==
  \/ CrossrefCall
  \/ OpenAlexCall

MetadataClientSpec == MetadataClientInit /\ [][MetadataClientNext]_vars

\* ------------------------------------------------------------ mcp_server.py

\* Number of tool calls the server is given, at once or one after another.
MaxTasks == 2

\* The environment variables of ENV_KEY_MAP that decide the clients of the
\* batches below (two of its eight).
ENV_KEYS == {"WILEY_TDM_TOKEN", "CROSSREF_MAILTO"}

\* An argument of configure_credentials: None, or a text.
NotGiven == [given |-> FALSE, text |-> <<>>]
Given(text) == [given |-> TRUE, text |-> text]

ArgumentTexts == { <<" ">>, <<" ", "b">> }

\* The `updates` dictionaries configure_credentials builds: the token is
\* left alone, removed or set, the address is left alone or set.
Updates ==
  { u \in [ENV_KEYS -> {NotGiven} \cup { Given(text) : text \in ArgumentTexts }] :
      u["CROSSREF_MAILTO"] # Given(<<" ">>) }

NoValues == [k \in {} |-> <<>>]

\* Mutant of CredentialStore_update: clear empties the store only.
UpdateClearsStoreOnly(store, env, updates, clear) ==
  LET given == { k \in DOMAIN updates : updates[k].given }
      stripped(k) == Strip(updates[k].text, Whitespace)
      removed == { k \in given : stripped(k) = <<>> }
      Put(f) == [k \in (DOMAIN f \ removed) \cup (given \ removed) |->
                   IF k \in given THEN stripped(k) ELSE f[k]]
  IN  [values |-> Put(IF clear THEN NoValues ELSE store), os_environ |-> Put(env)]

\* CredentialStore.update, the body under the lock: with `clear` the stored
\* keys leave os.environ and the store; then every update that is not None
\* is stripped, and removes its key from both when empty, sets it in both
\* otherwise.
CredentialStore_update(store, env, updates, clear) ==
  LET given == { k \in DOMAIN updates : updates[k].given }
      stripped(k) == Strip(updates[k].text, Whitespace)
      removed == { k \in given : stripped(k) = <<>> }
      Put(f) == [k \in (DOMAIN f \ removed) \cup (given \ removed) |->
                   IF k \in given THEN stripped(k) ELSE f[k]]
  IN  [values |-> Put(IF clear THEN NoValues ELSE store),
       os_environ |-> Put(IF clear THEN [k \in DOMAIN env \ DOMAIN store |-> env[k]] ELSE env)]

\* CredentialStore.apply: os.environ[key] = value for every stored key.
CredentialStore_apply(store, env) ==
  [k \in DOMAIN env \cup DOMAIN store |-> IF k \in DOMAIN store THEN store[k] ELSE env[k]]

HttpsPrefix == <<"h", "t", "t", "p", "s", ":", "/", "/", "d", "o", "i", ".", "o", "r", "g", "/">>
HttpPrefix == <<"h", "t", "t", "p", ":", "/", "/", "d", "o", "i", ".", "o", "r", "g", "/">>
DoiPrefix == <<"d", "o", "i", ":">>

\* DOI_PATTERN.fullmatch(s)
FullMatch(s) == s # <<>> /\ DoiPatternMatch(s, 1) = Len(s)

\* Mutant of _normalize_doi: the pattern is matched at the start of the
\* entry, not in full.
NormalizeByMatch(candidate) ==
  LET raw == Strip(candidate, Whitespace)
  IN  IF raw = <<>> THEN [error |-> "Empty DOI entry.", doi |-> <<>>]
      ELSE IF DoiPatternMatch(raw, 1) = 0 THEN [error |-> "Invalid DOI format", doi |-> <<>>]
      ELSE [error |-> "", doi |-> raw]

\* _normalize_doi: the cleaned DOI, or the message of the ValueError.
_normalize_doi(candidate) ==
  LET raw == Strip(candidate, Whitespace)
      lowered == Lower(raw)
      rest == IF StartsWith(lowered, HttpsPrefix) THEN SubSeq(raw, 16 + 1, Len(raw))
              ELSE IF StartsWith(lowered, HttpPrefix) THEN SubSeq(raw, 15 + 1, Len(raw))
              ELSE IF StartsWith(lowered, DoiPrefix) THEN SubSeq(raw, 4 + 1, Len(raw))
              ELSE raw
      cleaned == Strip(rest, Whitespace)
  IN  IF raw = <<>> THEN [error |-> "Empty DOI entry.", doi |-> <<>>]
      ELSE IF ~FullMatch(cleaned) THEN [error |-> "Invalid DOI format", doi |-> <<>>]
      ELSE [error |-> "", doi |-> cleaned]

\* The entries of the `dois` argument of download_papers: a DOI, DOIs behind
\* a prefix (in capitals, with blanks around), a blank entry, and an entry
\* behind two prefixes.
DoiEntries ==
  { <<" ", "D", "O", "I", ":", " ">> \o OtherDoi,
    HttpsPrefix \o WileyDoi \o <<" ">>,
    <<" ">>,
    DoiPrefix \o HttpPrefix \o WileyDoi }

\* The lists a caller passes: empty, one entry, or a DOI followed by an entry
\* that is none.
DoiLists ==
  { <<>> } \cup { <<e>> : e \in DoiEntries } \cup { <<WileyDoi, WileyDoi \o <<" ", "x">>>> }

\* The job ids: the job_id argument, or the one _build_job_id draws.
JobIds == {"j1", "j2"}

\* A tool call the server has not been given yet, and the fields of one that
\* it has: the tool, where the call stands, the arguments, the cleaned DOIs,
\* os.environ as credential_store.apply left it, the clients the job
\* constructed with the credential each of them read, how the run ended, and
\* the record get_job_summary found.
IdleTask ==
  [tool |-> "none", pc |-> "idle", updates |-> NoValues, clear_existing |-> FALSE,
   dois |-> <<>>, job |-> "", normalized |-> <<>>, applied |-> NoValues, built |-> {},
   used |-> NoValues, outcome |-> "none", summary |-> 0]

Tasks == 1..MaxTasks

\* The server after start-up: an empty store and registry, and an environment
\* that may hold a credential of its own.
ServerInit ==
  /\ values = NoValues
  /\ os_environ \in { NoValues, [k \in {"WILEY_TDM_TOKEN"} |-> <<"e">>] }
  /\ tasks = [t \in Tasks |-> IdleTask]
  /\ jobs = [j \in {} |-> 0]
  /\ args = [entry |-> "mcp_server"]
  /\ environ = {}
  /\ dois = <<>>
  /\ records = <<>>
  /\ constructed = {}
  /\ disabled_publishers = <<>>
  /\ output_dir = FALSE
  /\ NoResume
  /\ pc = "serving"
  /\ cfg = NotCalled
  /\ fs = [n \in DirNames |-> AbsentDir]
  /\ metrics = [l \in {} |-> 0]
  /\ idx = 0
  /\ record = NoRecord
  /\ provider = "none"
  /\ article_dir = None
  /\ pdf_downloaded = FALSE
  /\ tried = <<>>
  /\ success = FALSE
  /\ exc = NoExc
  /\ obs = NoObs
  /\ calls = <<>>

\* What no step of the server touches.
server_frame ==
  <<run_vars, resume_vars, cfg, fs, metrics, idx, record, pc, provider, locals, exc, obs,
    calls>>

\* configure_credentials(...): credential_store.update under the lock, which
\* is free whenever a call reaches it, because no holder awaits.
configure_credentials(t) ==
  /\ tasks[t].pc = "idle"
  /\ \E updates \in Updates, clear_existing \in BOOLEAN :
       LET stored == CredentialStore_update(values, os_environ, updates, clear_existing)
       IN  /\ values' = stored.values
           /\ os_environ' = stored.os_environ
           /\ tasks' = [tasks EXCEPT ![t] =
                          [IdleTask EXCEPT !.tool = "configure_credentials",
                                           !.updates = updates,
                                           !.clear_existing = clear_existing,
                                           !.pc = "returned"]]
  /\ UNCHANGED <<server_frame, jobs>>

\* download_papers up to `await asyncio.to_thread(runner)`: the entries are
\* normalised, an invalid or empty entry or an empty list raises ValueError;
\* otherwise the job id is fixed and _run_download applies the credentials.
download_papers(t) ==
  /\ tasks[t].pc = "idle"
  /\ \E ds \in DoiLists, job \in JobIds :
       LET results == [i \in DOMAIN ds |-> _normalize_doi(ds[i])]
           errors == { i \in DOMAIN ds : results[i].error # "" }
           call == [IdleTask EXCEPT !.tool = "download_papers", !.dois = ds]
       IN  IF errors # {} \/ ds = <<>>
           THEN /\ tasks' = [tasks EXCEPT ![t] = [call EXCEPT !.pc = "raised",
                                                               !.outcome = "ValueError"]]
                /\ os_environ' = os_environ
           ELSE /\ os_environ' = CredentialStore_apply(values, os_environ)
                /\ tasks' = [tasks EXCEPT ![t] =
                               [call EXCEPT !.pc = "thread", !.job = job,
                                            !.normalized = [i \in DOMAIN ds |-> results[i].doi],
                                            !.applied = CredentialStore_apply(values, os_environ)]]
  /\ UNCHANGED <<server_frame, values, jobs>>

\* The credential a client reads from an environment.
CredentialOf(who, env) ==
  env[CHOOSE k \in DOMAIN env : k \in CredentialNames(who)]

\* The clients a job with these DOIs constructs in an environment: one for
\* each publisher that has records, when its credential is set.
ClientsFor(found, env) ==
  LET planned == records_from_dois(CollectDois(found, <<>>))
      wanted == { who \in {"Wiley", "Elsevier", "Springer"} :
                    \E i \in DOMAIN planned : planned[i].publisher = who }
                \cup (IF \E i \in DOMAIN planned : planned[i].publisher = "Crossref"
                      THEN {"Crossref", "OpenAlex"} ELSE {})
  IN  { who \in wanted : Constructs(who, DOMAIN env) }

\* runner() in its worker thread, download_from_dois(..., load_env=False) up
\* to the clients: each constructor reads os.environ as it is by then.
runner_constructs(t) ==
  /\ tasks[t].pc = "thread"
  /\ tasks' = [tasks EXCEPT ![t] =
                 [@ EXCEPT !.pc = "running",
                           !.built = ClientsFor(tasks[t].normalized, os_environ),
                           !.used = [who \in ClientsFor(tasks[t].normalized, os_environ) |->
                                       CredentialOf(who, os_environ)]]]
  /\ UNCHANGED <<server_frame, values, os_environ, jobs>>

\* A call of download_papers that is over: its locals are gone.
Finished(task, at, outcome) ==
  [task EXCEPT !.pc = at, !.outcome = outcome, !.applied = NoValues, !.built = {},
               !.used = NoValues]

\* The rest of runner() and of download_papers: the stream is consumed; a
\* DownloadError becomes a RuntimeError and any other exception passes
\* through; after a run that completed the JobRecord is stored.
runner_returns(t) ==
  /\ tasks[t].pc = "running"
  /\ \E outcome \in {"completed", "DownloadError", "Exception"} :
       IF outcome = "completed"
       THEN /\ jobs' = [j \in DOMAIN jobs \cup {tasks[t].job} |->
                          IF j = tasks[t].job THEN t ELSE jobs[j]]
            /\ tasks' = [tasks EXCEPT ![t] = Finished(tasks[t], "returned", outcome)]
       ELSE /\ jobs' = jobs
            /\ tasks' = [tasks EXCEPT ![t] = Finished(tasks[t], "raised", outcome)]
  /\ UNCHANGED <<server_frame, values, os_environ>>

\* get_job_summary(job_id): the stored record, or ValueError.
get_job_summary(t) ==
  /\ tasks[t].pc = "idle"
  /\ \E job \in JobIds :
       tasks' = [tasks EXCEPT ![t] =
                   IF job \in DOMAIN jobs
                   THEN [IdleTask EXCEPT !.tool = "get_job_summary", !.job = job,
                                         !.pc = "returned", !.summary = jobs[job]]
                   ELSE [IdleTask EXCEPT !.tool = "get_job_summary", !.job = job,
                                         !.pc = "raised", !.outcome = "ValueError"]]
  /\ UNCHANGED <<server_frame, values, os_environ, jobs>>

ServerNext ==
  \E t \in Tasks :
    \/ configure_credentials(t)
    \/ download_papers(t)
    \/ runner_constructs(t)
    \/ runner_returns(t)
    \/ get_job_summary(t)

ServerSpec == ServerInit /\ [][ServerNext]_vars

\* ------------------------------------------------------------------ claims

Labels == {"Wiley", "Elsevier", "Springer", "Crossref", "Unknown"}

Attempted(m, l) == IF l \in DOMAIN m THEN m[l].attempted ELSE 0

Succeeded(m, l) == IF l \in DOMAIN m THEN m[l].succeeded ELSE 0

TotalAttempted ==
  Attempted(metrics, "Wiley") + Attempted(metrics, "Elsevier")
  + Attempted(metrics, "Springer") + Attempted(metrics, "Crossref")
  + Attempted(metrics, "Unknown")

\* The iteration of the current record is over.
RecordOver == obs.status # "running"

\* The current record is a generic one with a DOI, and both generic clients
\* are configured.
GenericWithBothClients ==
  /\ record.doi # None
  /\ {"OpenAlex", "Crossref"} \subseteq cfg.clients
  /\ Branch(record) = "Crossref"

\* Both generic download_pdf calls were made and both raised.
BothDownloadsRaised ==
  /\ Len(obs.attempts) = 2
  /\ obs.attempts[1].client = "OpenAlex" /\ obs.attempts[1].raised # "none"
  /\ obs.attempts[2].client = "Crossref" /\ obs.attempts[2].raised # "none"

\* C1: for a generic record with both generic clients configured, OpenAlex is
\* called first; once its attempt has raised, Crossref is called for the same
\* record; and when the Crossref download returned, its path is yielded and
\* the record does not end as a failure.
C1_FallbackSuccessIsNotAFailure ==
  (RecordOver /\ GenericWithBothClients) =>
    /\ obs.attempts # <<>>
    /\ obs.attempts[1].client = "OpenAlex"
    /\ (obs.attempts[1].raised # "none") =>
         /\ Len(obs.attempts) = 2
         /\ obs.attempts[2].client = "Crossref"
         /\ (obs.attempts[2].raised = "none") =>
              /\ obs.yields # <<>>
              /\ obs.yields[Len(obs.yields)] = PdfPath(article_dir)
              /\ obs.status # "failed"
              /\ obs.reports = 0

\* C2: a generic record whose OpenAlex download and Crossref download both
\* raised is reported as failed exactly once, yields no path, and without
\* raise_on_error the generator is back at the top of the loop; no record is
\* ever reported more than once.
C2_BothFailReportedOnce ==
  /\ obs.reports <= 1
  /\ (BothDownloadsRaised /\ Branch(record) = "Crossref") => obs.yields = <<>>
  /\ (RecordOver /\ BothDownloadsRaised /\ Branch(record) = "Crossref") =>
       /\ obs.status = "failed"
       /\ obs.reports = 1
       /\ ~cfg.raise_on_error => pc \in {"loop", "done"}

C2_Witness ==
  /\ pc = "loop"
  /\ obs.status = "failed"
  /\ ~cfg.raise_on_error
  /\ idx < MaxRecords
  /\ BothDownloadsRaised
  /\ Branch(record) = "Crossref"

\* C3: for a record labelled Wiley, Elsevier or Springer only the client of
\* that publisher is ever called, whether it fails or is missing, also when
\* the OpenAlex and Crossref clients are configured.
C3_PremiumUsesOwnClientOnly ==
  (record.publisher \in {"Wiley", "Elsevier", "Springer"}) =>
    /\ \A i \in DOMAIN obs.attempts : obs.attempts[i].client = record.publisher
    /\ Len(obs.attempts) <= 1
    /\ (record.publisher \notin cfg.clients) => (obs.attempts = <<>> /\ ~obs.net)

C3_Witness ==
  /\ record.publisher \in {"Wiley", "Elsevier", "Springer"}
  /\ {"OpenAlex", "Crossref"} \subseteq cfg.clients
  /\ obs.status = "failed"
  /\ Len(obs.attempts) = 1
  /\ obs.attempts[1].raised = "DownloadError"
  /\ pc = "loop"

\* The client was given the identifier its download_pdf insists on.
HasIdentifier ==
  CASE provider \in {"Crossref", "OpenAlex"} -> record.doi # None
    [] provider = "Elsevier" -> record.doi # None \/ record.pii # None
    [] OTHER -> TRUE

\* A call on an existing destination without overwrite returned the
\* destination, sent nothing and left the directory as it was.
Shortcut(c) == c.exc = NoExc /\ c.http = <<>> /\ c.after = c.before

\* C4 as stated: for every client, every download_pdf call without overwrite
\* on an existing destination returns it, issues no HTTP request and leaves
\* the file unchanged, at the first call and at every repetition.
C4_ExistingDestinationShortcut ==
  \A i \in DOMAIN calls :
    (calls[i].fn = "download_pdf" /\ calls[i].before.pdf # NoFile /\ ~cfg.overwrite)
      => Shortcut(calls[i])

\* C4 amended: the same, for calls that carry the identifier the client
\* requires (a DOI for Crossref and OpenAlex, a DOI or PII for Elsevier).
C4_ShortcutGivenIdentifier ==
  HasIdentifier =>
    \A i \in DOMAIN calls :
      (calls[i].fn = "download_pdf" /\ calls[i].before.pdf # NoFile /\ ~cfg.overwrite)
        => Shortcut(calls[i])

C4_Witness ==
  /\ pc = "client"
  /\ provider = "Crossref"
  /\ HasIdentifier
  /\ ~cfg.overwrite
  /\ Len(calls) = 2
  /\ calls[1].fn = "download_pdf"
  /\ calls[1].before.pdf # NoFile
  /\ Shortcut(calls[1])
  /\ calls[2] = calls[1]

\* C5: without raise_on_error no exception leaves the generator, and when the
\* input is exhausted the attempted counters add up to the number of records
\* taken from it.
C5_NoFailureAbortsBatch ==
  /\ ~cfg.raise_on_error => pc # "raised"
  /\ (pc = "done" /\ ~cfg.raise_on_error /\ cfg.has_metrics) => TotalAttempted = idx

C5_Witness ==
  /\ pc = "done"
  /\ ~cfg.raise_on_error
  /\ cfg.has_metrics
  /\ idx >= 2
  /\ obs.status = "failed"
  /\ \A l \in Labels : Succeeded(metrics, l) = 0

\* C6: a succeeded counter changes only by one, only for the label of the
\* current record, only in the step that ends the record as succeeded, and
\* only after a download_pdf call of that record returned.
C6_SucceededOnlyOnPrimarySuccess ==
  [][ \A l \in Labels :
        (Succeeded(metrics', l) # Succeeded(metrics, l)) =>
          /\ l = PublisherLabel(record)
          /\ record' = record
          /\ Succeeded(metrics', l) = Succeeded(metrics, l) + 1
          /\ pdf_downloaded
          /\ \E i \in DOMAIN obs.attempts : obs.attempts[i].raised = "none"
          /\ obs.status = "running"
          /\ obs'.status = "succeeded" ]_vars

C6_Witness ==
  /\ obs.status = "succeeded"
  /\ Succeeded(metrics, PublisherLabel(record)) >= 1
  /\ pdf_downloaded

\* C7: a record whose primary PDF was downloaded ends as succeeded, is counted
\* in the metrics and is not reported as a failure, whatever the supplement
\* stage did.
C7_SupplementsDoNotChangeStatus ==
  (RecordOver /\ pdf_downloaded /\ obs.supplements # <<>>) =>
    /\ obs.status = "succeeded"
    /\ obs.reports = 0
    /\ cfg.has_metrics => Succeeded(metrics, PublisherLabel(record)) >= 1

\* C8: no call of download_supplements_for_doi made by the orchestrator ends
\* in an exception.
C8_SupplementsNeverRaise ==
  \A i \in DOMAIN obs.supplements : obs.supplements[i] = "none"

C10_FailureHandlingKeepsFiles ==
  [][ (pc = "except") =>
        /\ \A n \in DirNames :
             /\ fs'[n].pdf = fs[n].pdf
             /\ fs'[n].legacy = fs[n].legacy
             /\ fs'[n].supp = fs[n].supp
             /\ (~IsEmptyDir(fs[n])) => fs'[n] = fs[n]
        /\ pdf_downloaded =>
             (fs'[article_dir].exists /\ fs'[article_dir].pdf # NoFile) ]_vars

C10_Witness ==
  /\ obs.status = "failed"
  /\ pdf_downloaded
  /\ obs.supplements = <<"TypeError">>
  /\ fs[article_dir].exists
  /\ fs[article_dir].pdf = "Wiley"

C12_DelayAfterProcessedRecord ==
  (RecordOver /\ cfg.delay_seconds # 0) =>
    (obs.slept <=> obs.status \in {"succeeded", "skipped"})

IsPrefix(s, t) == Len(s) <= Len(t) /\ SubSeq(t, 1, Len(s)) = s

\* The article directory of a record that has an identifier.
RecordDir(rec) == _safe_identifier(IF rec.doi # None THEN rec.doi ELSE rec.pii)

\* C13: the generator takes the next record only from the top of the loop,
\* after the record before it is over, and takes them one by one; every
\* download_pdf call, supplement call and yield belongs to the record that is
\* current and not yet over, the observations only grow, and every path
\* yielded lies in the current record's directory.
C13_OneRecordAtATime ==
  [][ /\ (idx' # idx) =>
           /\ pc = "loop"
           /\ idx' = idx + 1
           /\ idx > 0 => RecordOver
           /\ obs' = NoObs
      /\ (record' # record) => idx' = idx + 1
      /\ (idx' = idx /\ obs' # obs) =>
           /\ obs.status = "running"
           /\ record' = record
           /\ IsPrefix(obs.attempts, obs'.attempts)
           /\ IsPrefix(obs.supplements, obs'.supplements)
           /\ IsPrefix(obs.yields, obs'.yields)
           /\ \A i \in DOMAIN obs'.yields : obs'.yields[i][1] = RecordDir(record) ]_vars

C13_Witness ==
  /\ idx = 2
  /\ record = ArticleRecord("Wiley", DoiA, None)
  /\ obs.yields = <<PdfPath(_safe_identifier(DoiA))>>
  /\ obs.supplements # <<>>
  /\ fs[_safe_identifier(PiiP)].pdf = "Elsevier"

\* No entry occurs twice in the sequence.
NoRepeats(s) == \A i, j \in DOMAIN s : s[i] = s[j] => i = j

\* A run of download_from_savedrecs or download_from_dois.
IsRun == args.entry \in {"savedrecs", "dois"}

\* The DOIs the input of the run mentions.
Mentioned ==
  IF args.entry = "savedrecs" THEN Range(FindIter(args.input, 1)) ELSE Range(args.input)

\* C14: in a run, the extracted DOIs and the records of the plan, which are
\* what the run passes to batched_download, hold each DOI at most once, and
\* only DOIs the input mentions, however often the input mentions them.
C14_EachDoiAtMostOnce ==
  (IsRun /\ pc # "run") =>
    /\ NoRepeats(dois)
    /\ NoRepeats([i \in DOMAIN records |-> records[i].doi])
    /\ \A i \in DOMAIN records : records[i].doi \in Range(dois)
    /\ Range(dois) \subseteq Mentioned

C14_Witness ==
  /\ args.entry = "savedrecs"
  /\ args.input = Savedrecs(<<WileyDoi, OtherDoi, WileyDoi>>)
  /\ pc = "raised"
  /\ [i \in DOMAIN records |-> records[i].doi] = <<WileyDoi, OtherDoi>>
  /\ cfg.clients = {"Wiley", "Crossref", "OpenAlex"}

\* The plan of the run before any client is constructed, from its DOIs.
Planned ==
  IF args.capped
  THEN _limit_records_per_publisher(records_from_dois(dois), args.max_per_publisher)
  ELSE records_from_dois(dois)

\* A client that can serve the publisher label can be constructed.
Available(publisher) ==
  IF publisher = "Crossref"
  THEN Constructs("Crossref", environ) \/ Constructs("OpenAlex", environ)
  ELSE Constructs(publisher, environ)

\* The run has left download_from_savedrecs's planning and configuration.
Configured == args.entry = "savedrecs" /\ pc \notin {"run", "configure"}

\* C15: when some planned record's publisher has no constructible client,
\* exactly the records of such publishers leave the plan, the others stay in
\* their order, only those publishers are listed as disabled, and the run
\* goes on to download what is left instead of being aborted.
C15_MissingCredentialDisablesOnlyThatProvider ==
  Configured =>
    \A planned \in {Planned} :
      \A off \in { { p \in { planned[i].publisher : i \in DOMAIN planned } :
                      ~Available(p) } } :
        (off # {}) =>
          /\ records = SelectSeq(planned, LAMBDA rec : rec.publisher \notin off)
          /\ Range(disabled_publishers) = off
          /\ (records # <<>> /\ ~args.dry_run) => pc \in {"launch", "stream"}

\* The current record of batched_download is a generic one and neither
\* generic client was passed.
GenericWithoutClient ==
  /\ args.entry = "batched_download"
  /\ pc \notin {"loop", "done"}
  /\ cfg.clients \cap {"OpenAlex", "Crossref"} = {}
  /\ Branch(record) = "Crossref"

\* The records with the generic label.
GenericRecords(recs) == SelectSeq(recs, LAMBDA rec : rec.publisher = "Crossref")

\* C16: download_from_savedrecs keeps a generic record in the plan exactly
\* when the Crossref or the OpenAlex client could be constructed; and while
\* batched_download handles a generic record with neither client, no step
\* calls a client, sends a request, yields a path or changes a directory,
\* and the record ends as failed with a DownloadError.
C16_GenericNeedsAGenericClient ==
  [][ /\ (args.entry = "savedrecs" /\ pc = "configure") =>
           /\ GenericRecords(records') =
                IF Available("Crossref") THEN GenericRecords(records) ELSE <<>>
           /\ constructed' \cap {"Crossref", "OpenAlex"} =
                IF GenericRecords(records) # <<>>
                THEN { who \in {"Crossref", "OpenAlex"} : Constructs(who, environ) }
                ELSE {}
      /\ GenericWithoutClient =>
           /\ fs' = fs
           /\ obs'.attempts = <<>>
           /\ ~obs'.net
           /\ obs'.yields = <<>>
           /\ obs'.status \in {"running", "failed"}
           /\ (obs'.status = "failed") => exc'.type = "DownloadError" ]_vars

C16_Witness ==
  /\ args.entry = "batched_download"
  /\ record = ArticleRecord("Crossref", DoiB, None)
  /\ cfg.clients = {"Wiley"}
  /\ obs.status = "failed"
  /\ exc = DownloadError("Neither OpenAlexClient nor CrossrefClient configured")
  /\ obs.attempts = <<>>
  /\ ~obs.net
  /\ ~fs[_safe_identifier(DoiB)].exists

\* C17: a dry run of download_from_savedrecs never creates the output
\* directory or anything in it, calls no client, sends no request, and ends
\* by returning the empty iterator.
C17_DryRunTouchesNothing ==
  (args.entry = "savedrecs" /\ args.dry_run) =>
    /\ ~output_dir
    /\ \A n \in DirNames : fs[n] = AbsentDir
    /\ obs = NoObs
    /\ calls = <<>>
    /\ cfg = NotCalled
    /\ pc \in {"run", "configure", "launch", "returned"}

C17_Witness ==
  /\ args.entry = "savedrecs"
  /\ args.dry_run
  /\ pc = "returned"
  /\ Len(records) = 2
  /\ constructed # {}
  /\ disabled_publishers # <<>>
  /\ ~output_dir

\* The records of `planned` that have fewer than n records of their label
\* before them, from position i on.
RECURSIVE FirstPerLabel(_, _, _)
FirstPerLabel(planned, n, i) ==
  IF i > Len(planned) THEN <<>>
  ELSE
    LET earlier == { j \in 1..(i - 1) : planned[j].publisher = planned[i].publisher }
    IN  (IF Cardinality(earlier) < n THEN <<planned[i]>> ELSE <<>>)
        \o FirstPerLabel(planned, n, i + 1)

\* C18: with a cap n, the plan that reaches the construction of the clients
\* is the list of records cut down to the first n of each label, in their
\* order, made before any client exists, any directory is created or any
\* request is sent; from then on no label has more than n records.
C18_CapTruncatesBeforeAnyNetwork ==
  (args.entry = "savedrecs" /\ args.capped /\ pc # "run") =>
    /\ \A label \in {"Wiley", "Elsevier", "Springer", "Crossref"} :
         Cardinality({ i \in DOMAIN records : records[i].publisher = label })
           <= args.max_per_publisher
    /\ (pc = "configure") =>
         /\ \A planned \in {records_from_dois(dois)} :
              records = FirstPerLabel(planned, args.max_per_publisher, 1)
         /\ constructed = {}
         /\ ~output_dir
         /\ obs = NoObs

C18_Witness ==
  /\ args.entry = "savedrecs"
  /\ args.input = Savedrecs(<<WileyDoi, ElsevierDoi, WileyDoi2>>)
  /\ args.capped
  /\ args.max_per_publisher = 1
  /\ pc = "configure"
  /\ [i \in DOMAIN records |-> records[i].doi] = <<WileyDoi, ElsevierDoi>>

\* The batch of a Wiley DOI, an Elsevier DOI and a DOI of no listed prefix,
\* with only the Wiley credential set.
WileyOnlyScenario ==
  /\ args.entry = "savedrecs"
  /\ args.input = Savedrecs(<<WileyDoi, ElsevierDoi, OtherDoi>>)
  /\ ~args.dry_run
  /\ ~args.capped
  /\ load_env_file(environ, args.dotenv) = {"WILEY_TDM_TOKEN"}

\* C19: the run of that batch ends with the stream exhausted, the Wiley
\* record alone attempted, and the metrics {Wiley: {attempted: 1,
\* succeeded: 1}}.
C19_WileyOnlyScenario ==
  (WileyOnlyScenario /\ pc \notin {"run", "configure", "launch"}) =>
    /\ pc = "done"
    /\ exc = NoExc
    /\ [i \in DOMAIN records |-> records[i].doi] = <<WileyDoi>>
    /\ metrics = ("Wiley" :> [attempted |-> 1, succeeded |-> 1])

\* A string that DOI_PATTERN matches as a whole.
IsDoi(s) == s # <<>> /\ DoiPatternMatch(s, 1) = Len(s)

\* The position of the first occurrence of x in s.
FirstIndex(s, x) == CHOOSE i \in DOMAIN s : s[i] = x /\ \A j \in 1..(i - 1) : s[j] # x

\* C20: extract_dois returns the matches of DOI_PATTERN in the text, each
\* one once, ordered by where each first occurs in the text.
C20_DistinctInFirstSeenOrder ==
  (args.entry = "extract_dois" /\ pc = "returned") =>
    LET matches == FindIter(args.input, 1)
    IN  /\ NoRepeats(dois)
        /\ Range(dois) = Range(matches)
        /\ \A i \in DOMAIN dois : IsDoi(dois[i])
        /\ \A i, j \in DOMAIN dois :
             i < j => FirstIndex(matches, dois[i]) < FirstIndex(matches, dois[j])

C20_Witness ==
  /\ args.entry = "extract_dois"
  /\ pc = "returned"
  /\ FindIter(args.input, 1) = <<OtherDoi, WileyDoi, OtherDoi>>
  /\ dois = <<OtherDoi, WileyDoi>>

\* C21: every token extract_dois returns is non-empty, is in full a match of
\* 10.<4-9 digits>/<visible characters> and holds no control character; a
\* DOI that stands in the text right before a control character is returned
\* without that character, and once only, however often and with whatever
\* after it the text mentions it.
PlainDoi(s) ==
  /\ Len(s) >= 9
  /\ SubSeq(s, 1, 3) = <<"1", "0", ".">>
  /\ \E n \in 4..9 :
       /\ Len(s) >= 3 + n + 2
       /\ \A k \in 4..(3 + n) : s[k] \in Digits
       /\ s[3 + n + 1] = "/"
       /\ \A k \in (3 + n + 2)..Len(s) : s[k] \notin Whitespace \cup ControlChars

C21_TokensAreCleanDois ==
  args.entry = "extract_dois" /\ pc = "returned" =>
    /\ \A k \in DOMAIN dois : PlainDoi(dois[k])
    /\ NoRepeats(dois)
    /\ \A i, j \in DOMAIN args.input :
         ( /\ i < j
           /\ args.input[j] \in ControlChars
           /\ (i = 1 \/ args.input[i - 1] \in Whitespace \cup ControlChars)
           /\ PlainDoi(SubSeq(args.input, i, j - 1)) )
         => SubSeq(args.input, i, j - 1) \in Range(dois)

\* The text mentions one DOI twice, first with U+0001 after it and then with
\* a blank, and the DOI was returned once.
C21_Witness ==
  /\ args.entry = "extract_dois"
  /\ pc = "returned"
  /\ args.input = WileyDoi \o <<Soh>> \o WileyDoi \o <<" ">>
  /\ dois = <<WileyDoi>>

\* The label the prefix tables of the publishers give a DOI, by its first
\* seven characters; "" when no table lists them.
PremiumLabel(doi) ==
  LET head == SubSeq(doi, 1, 7)
  IN  IF head \in { <<"1", "0", ".", "1", "0", "0", "2">>, <<"1", "0", ".", "1", "1", "1", "1">> }
      THEN "Wiley"
      ELSE IF head \in { <<"1", "0", ".", "1", "0", "1", "6">>,
                          <<"1", "0", ".", "1", "0", "1", "1">> }
      THEN "Elsevier"
      ELSE IF head \in { <<"1", "0", ".", "1", "0", "0", "7">>,
                          <<"1", "0", ".", "1", "0", "3", "8">>,
                          <<"1", "0", ".", "1", "1", "8", "6">> }
      THEN "Springer"
      ELSE ""

Classified == args.entry = "classify_publisher" /\ pc = "returned"

RecordsBuilt == args.entry = "records_from_dois" /\ pc = "returned"

C25_ResumeAfterCheckpoint ==
  [][args.entry = "resume" =>
       /\ pc = "resume" =>
            /\ position' = IF checkpoint.readable
                           THEN checkpoint.last_completed_index + 1
                           ELSE 0
            /\ pc' = IF position' < args.total THEN "loop" ELSE "finished"
       /\ pc = "loop" /\ pc' = "route" =>
            /\ position < args.total
            /\ \A i \in DOMAIN ledger : ledger[i].index < position
       /\ pc # "resume" /\ position' # position =>
            /\ pc = "done"
            /\ position' = position + 1
            /\ ledger' = Append(ledger, [index |-> position, outcome |-> ledger'[Len(ledger')].outcome])
       /\ pc' = "finished" /\ pc # "resume" => position' = args.total]_vars

\* A batch of three records, resumed after its first record: the records 1
\* and 2 were processed, in this order, and the run is over.
C25_Witness ==
  /\ args.entry = "resume"
  /\ args.total = 3
  /\ pc = "finished"
  /\ [i \in DOMAIN ledger |-> ledger[i].index] = <<1, 2>>

\* C26: the checkpoint is rewritten when, and only when, the processing of
\* a record is over, whatever its outcome, with that record's index; so the
\* checkpoint names the record before `position`, and the record at
\* `position` is the only one a crash can lose.
C26_CheckpointAfterEveryRecord ==
  [][args.entry = "resume" =>
       /\ checkpoint' # checkpoint =>
            /\ pc = "done"
            /\ obs.status \in {"succeeded", "skipped", "failed"}
       /\ pc = "done" =>
            /\ checkpoint' = Checkpoint(position)
            /\ Len(ledger') = Len(ledger) + 1
       /\ ledger' # <<>> =>
            /\ checkpoint' = Checkpoint(ledger'[Len(ledger')].index)
            /\ position' = checkpoint'.last_completed_index + 1]_vars

\* The checkpoint was rewritten after a record that failed and again after
\* one that yielded a path.
C26_Witness ==
  /\ args.entry = "resume"
  /\ Len(ledger) = 2
  /\ ledger[1].outcome = "failure"
  /\ ledger[2].outcome = "success"
  /\ checkpoint = Checkpoint(ledger[2].index)

\* C27: a download_pdf call of a provider client either returns or raises
\* DownloadError, whatever went wrong: a refused or failed request, missing
\* metadata, a missing identifier, a license or open-access rejection.
C27_OnlyDownloadErrorEscapes ==
  \A i \in DOMAIN calls :
    calls[i].fn = "download_pdf" => calls[i].exc.type \in {"none", "DownloadError"}

\* C28: when the client of every publisher the plan needs could not be
\* constructed, so that no record is left, download_from_savedrecs raises
\* instead of returning.
C28_TotalConfigurationFailureAborts ==
  ( /\ args.entry = "savedrecs"
    /\ pc \notin {"run", "configure"}
    /\ disabled_publishers # <<>>
    /\ records = <<>> )
  => pc = "raised" /\ exc # NoExc

OnSafelist(self, entry) ==
  \E j \in DOMAIN self._license_safelist :
    StartsWith(Lower(entry.URL), self._license_safelist[j])

\* The entry carries a start date that has been reached / that lies ahead.
StartPassed(entry) == entry.start.kind = "date" /\ entry.start.at <= Now

NotYetActive(entry) == entry.start.kind = "date" /\ entry.start.at > Now

\* The download_pdf call c issued the request `what`.
Requested(c, what) == \E i \in DOMAIN c.http : c.http[i] = what

LicenseRejection == DownloadError("Crossref license not in allowed safelist")

\* C31 as stated: with a safelist configured, the Crossref client requests
\* content only for a work with a license entry whose URL starts with an
\* allowed prefix and whose start date has passed.
C31_OnlyLicensesWithPassedStart ==
  \A cs \in {calls} : \A k \in DOMAIN cs :
    (/\ cs[k].fn = "CrossrefClient.download_pdf"
     /\ args.self._license_safelist # None
     /\ Requested(cs[k], "content"))
    => \E i \in DOMAIN cs[k].net.work.license :
         /\ OnSafelist(args.self, cs[k].net.work.license[i])
         /\ StartPassed(cs[k].net.work.license[i])

\* C31 amended: with a safelist configured, the Crossref client requests
\* content only for a work with a license entry whose URL starts with an
\* allowed prefix and that is not dated to start later (an entry without a
\* readable start date counts as active); every other work whose metadata
\* arrived is rejected with the license DownloadError after the metadata
\* request alone.  A client without a safelist never rejects for the license.
C31_OnlyLicensesInForce ==
  \A cs \in {calls} : \A k \in DOMAIN cs :
    (cs[k].fn = "CrossrefClient.download_pdf" /\ cs[k].net.metadata = "200"
     /\ Requested(cs[k], "metadata"))
    => LET licenses == cs[k].net.work.license
           in_force == \E i \in DOMAIN licenses :
                         /\ OnSafelist(args.self, licenses[i])
                         /\ ~NotYetActive(licenses[i])
       IN  IF args.self._license_safelist = None \/ in_force
           THEN cs[k].exc # LicenseRejection
           ELSE /\ cs[k].exc = LicenseRejection
                /\ ~Requested(cs[k], "head")
                /\ ~Requested(cs[k], "content")

\* A work whose first matching license starts later and whose second starts
\* now is downloaded by a client with a safelist.
C31_Witness ==
  /\ Len(calls) = 1
  /\ calls[1].fn = "CrossrefClient.download_pdf"
  /\ args.self._license_safelist # None
  /\ calls[1].net.work.license = << [URL |-> AllowedUrl, start |-> StartAt(2)],
                                    [URL |-> AllowedUrl, start |-> StartAt(1)] >>
  /\ Requested(calls[1], "content")
  /\ calls[1].exc = NoExc

\* The PDF link of a location of an OpenAlex work ("" when it has none).
PdfLinkOf(loc) == IF loc.pdf_url # "" THEN loc.pdf_url ELSE loc.url_for_pdf

\* C32: the OpenAlex client requests content only for a work flagged open
\* access; the address is the best location's PDF link when it has one,
\* otherwise the PDF link of the first listed location that has one; a work
\* flagged open access without any PDF link gets the "no PDF URL"
\* DownloadError and no content request.
C32_OpenAlexContentUrl ==
  \A cs \in {calls} : \A k \in DOMAIN cs :
    cs[k].fn = "OpenAlexClient.download_pdf" =>
      LET work == cs[k].net.work
          listed == { i \in DOMAIN work.locations : PdfLinkOf(work.locations[i]) # "" }
          nothing == PdfLinkOf(work.best_oa_location) = "" /\ listed = {}
      IN  /\ Requested(cs[k], "content") =>
               /\ work.open_access = "open"
               /\ cs[k].url # ""
               /\ IF PdfLinkOf(work.best_oa_location) # ""
                  THEN cs[k].url = PdfLinkOf(work.best_oa_location)
                  ELSE \E i \in listed :
                         /\ cs[k].url = PdfLinkOf(work.locations[i])
                         /\ \A j \in listed : i <= j
          /\ (cs[k].net.metadata = "200" /\ Requested(cs[k], "metadata")
              /\ work.open_access = "open" /\ nothing)
             => /\ cs[k].exc = DownloadError("No open-access PDF URL available via OpenAlex")
                /\ ~Requested(cs[k], "content")

\* The best location and the first listed one have no PDF link: the content
\* comes from the second listed location.
C32_Witness ==
  /\ Len(calls) = 1
  /\ calls[1].fn = "OpenAlexClient.download_pdf"
  /\ calls[1].net.work.best_oa_location = NoLocation
  /\ calls[1].net.work.locations = << NoLocation, [pdf_url |-> "p2", url_for_pdf |-> "q"] >>
  /\ calls[1].url = "p2"
  /\ calls[1].exc = NoExc

\* The call c made each of its requests right after a sleep.
SleptBeforeEachRequest(c) ==
  \A i \in DOMAIN c.http :
    c.http[i] \in {"metadata", "head", "content"} => (i > 1 /\ c.http[i - 1] = "sleep")

\* C33 as stated: every request of a Crossref download_pdf call (metadata
\* lookup, HEAD request, content download) comes right after a sleep.
C33_DelayBeforeEveryRequest ==
  \A cs \in {calls} : \A k \in DOMAIN cs :
    cs[k].fn = "CrossrefClient.download_pdf" => SleptBeforeEachRequest(cs[k])

\* C33 amended: the same for a client whose request delay is positive.
C33_PositiveDelayBeforeEveryRequest ==
  \A cs \in {calls} : \A k \in DOMAIN cs :
    (cs[k].fn = "CrossrefClient.download_pdf" /\ args.self._request_delay > 0)
    => SleptBeforeEachRequest(cs[k])

\* A client with the default delay looks up the metadata, asks the resolver
\* and downloads, sleeping before each of the three requests.
C33_Witness ==
  /\ Len(calls) = 1
  /\ calls[1].fn = "CrossrefClient.download_pdf"
  /\ args.self._request_delay = DefaultCrossrefRequestDelay
  /\ calls[1].http = <<"sleep", "metadata", "sleep", "head", "sleep", "content">>
  /\ calls[1].exc = NoExc

\* ---- C34, C35: batched_download (Spec)

\* C34: for a generic record, no provider is attempted after a download_pdf
\* call that returned, and the record's primary PDF path is yielded at most
\* once, whatever the supplement stage does afterwards.
C34_FirstSuccessWins ==
  Branch(record) = "Crossref" =>
    /\ \A i \in DOMAIN obs.attempts :
         obs.attempts[i].raised = "none" => i = Len(obs.attempts)
    /\ Cardinality({ i \in DOMAIN obs.yields : obs.yields[i] = PdfPath(article_dir) }) <= 1

\* C35: with a metrics mapping, a step changes `attempted` of a label exactly
\* when it starts a record of that label, and then by one, before any client
\* was called for the record; so attempted counts the records started, the
\* totals equal the number of records taken, and 0 <= succeeded <= attempted
\* for every label.
C35_AttemptedCountsStartedRecords ==
  [][/\ \A l \in Labels :
          /\ Attempted(metrics', l) =
               Attempted(metrics, l)
               + (IF cfg.has_metrics /\ idx' = idx + 1 /\ PublisherLabel(record') = l
                  THEN 1 ELSE 0)
          /\ 0 <= Succeeded(metrics', l)
          /\ Succeeded(metrics', l) <= Attempted(metrics', l)
     /\ idx' = idx + 1 => (obs'.attempts = <<>> /\ ~obs'.net)
     /\ cfg.has_metrics => TotalAttempted' = idx'
    ]_vars

\* The second Elsevier record of a batch is rejected for its missing
\* identifiers, without a client call, after the first one succeeded: both
\* are counted as attempted.
C35_Witness ==
  /\ cfg.has_metrics
  /\ idx = 2
  /\ record = ArticleRecord("Elsevier", None, None)
  /\ obs.status = "failed"
  /\ obs.attempts = <<>>
  /\ Attempted(metrics, "Elsevier") = 2
  /\ Succeeded(metrics, "Elsevier") = 1

\* ---- C36: article directories of distinct DOIs (Spec)

\* C36: two records of a batch with different DOIs do not share an article
\* directory, so the path yielded for a record never holds the PDF that the
\* client of a record with another DOI wrote during the batch.
C36_NoSharedArticleDirectory ==
  \A r \in RecordShapes :
    (/\ article_dir # None
     /\ record.doi # None
     /\ r.doi # None
     /\ r.doi # record.doi
     /\ obs.yields # <<>>)
    => ~(RecordDir(r) = article_dir /\ fs[article_dir].pdf = r.publisher)

\* ---- C37: premium labels by registrant prefix (ClassifySpec)

\* The registrant prefix of a DOI: the text before its first '/'.
Registrant(doi) ==
  LET slashes == { i \in DOMAIN doi : doi[i] = "/" }
  IN  IF slashes = {} THEN doi
      ELSE SubSeq(doi, 1, (CHOOSE i \in slashes : \A j \in slashes : i <= j) - 1)

\* The prefix table of a premium label.
PrefixTable(label) ==
  CASE label = "Wiley"    -> WILEY_PREFIXES
    [] label = "Elsevier" -> ELSEVIER_PREFIXES
    [] label = "Springer" -> SPRINGER_PREFIXES
    [] OTHER              -> {}

\* C37: classify_publisher gives a DOI a premium label only when the DOI's
\* registrant prefix is an entry of that publisher's table (a registrant that
\* merely begins with an entry gets the generic label), and no DOI begins
\* with entries of two publishers' tables.
C37_PremiumOnlyForListedRegistrant ==
  Classified =>
    /\ calls[1].returned \in {"Wiley", "Elsevier", "Springer"} =>
         Registrant(Lower(args.input)) \in PrefixTable(calls[1].returned)
    /\ Registrant(Lower(args.input))
         \notin (WILEY_PREFIXES \cup ELSEVIER_PREFIXES \cup SPRINGER_PREFIXES) =>
         calls[1].returned = "Crossref"
    /\ \A a, b \in {"Wiley", "Elsevier", "Springer"} :
         (/\ \E p \in PrefixTable(a) : StartsWith(Lower(args.input), p)
          /\ \E p \in PrefixTable(b) : StartsWith(Lower(args.input), p))
         => a = b

\* The keys a returned configure_credentials call asked to remove with an
\* empty or blank value.
EmptiedBy(task) ==
  { k \in DOMAIN task.updates :
      task.updates[k].given /\ \A i \in DOMAIN task.updates[k].text : task.updates[k].text[i] = " " }

\* C38: after every CredentialStore.update and apply, however the calls of
\* concurrent callers interleave, each key the store holds has the same value
\* in os.environ, and a key that left the store, by an empty update or by
\* clear, is absent from os.environ; so is a key the call emptied without the
\* store holding it.
C38_EnvironmentAgreesWithStore ==
  [][ /\ \A k \in DOMAIN values' : k \in DOMAIN os_environ' /\ os_environ'[k] = values'[k]
      /\ \A k \in DOMAIN values \ DOMAIN values' : k \notin DOMAIN os_environ'
      /\ \A t \in Tasks :
           (tasks[t].pc = "idle" /\ tasks'[t].tool = "configure_credentials")
             => \A k \in EmptiedBy(tasks'[t]) : k \notin DOMAIN os_environ' \cup DOMAIN values'
    ]_vars

\* A clear that came with a new crossref address, after an earlier call had
\* stored a token: the token is gone from the store and from os.environ.
C38_Witness ==
  \E t, u \in Tasks :
    /\ tasks[t].tool = "configure_credentials"
    /\ tasks[t].updates["WILEY_TDM_TOKEN"] = Given(<<" ", "b">>)
    /\ tasks[u].tool = "configure_credentials"
    /\ tasks[u].clear_existing
    /\ ~tasks[u].updates["WILEY_TDM_TOKEN"].given
    /\ tasks[u].updates["CROSSREF_MAILTO"] = Given(<<" ", "b">>)
    /\ values = [k \in {"CROSSREF_MAILTO"} |-> <<"b">>]
    /\ os_environ = values

\* C39: a download_papers job whose clients are constructed has the providers
\* and the credentials of the environment its own credential_store.apply left:
\* no configure_credentials call and no other job that ran in between shows
\* in them.
C39_JobKeepsItsCredentials ==
  \A t \in Tasks :
    tasks[t].pc = "running"
      => /\ tasks[t].built = ClientsFor(tasks[t].normalized, tasks[t].applied)
         /\ \A who \in tasks[t].built \cap ClientsFor(tasks[t].normalized, tasks[t].applied) :
              tasks[t].used[who] = CredentialOf(who, tasks[t].applied)

\* The DOI pattern in full: "10.", four to nine digits, a slash, and one or
\* more visible characters to the end.
WholeDoi(s) ==
  \E n \in 4..9 :
    /\ Len(s) >= 3 + n + 2
    /\ SubSeq(s, 1, 3) = <<"1", "0", ".">>
    /\ \A i \in 4..(3 + n) : s[i] \in Digits
    /\ s[4 + n] = "/"
    /\ \A i \in (5 + n)..Len(s) : s[i] \in VisibleChars

\* An entry that validates: blanks aside, a DOI, or a DOI behind one of the
\* three prefixes in any case.
Validated(entry) ==
  \E raw \in {Strip(entry, Whitespace)}, p \in {<<>>, HttpsPrefix, HttpPrefix, DoiPrefix} :
    /\ StartsWith(Lower(raw), p)
    /\ WholeDoi(Strip(SubSeq(raw, Len(p) + 1, Len(raw)), Whitespace))

\* The entries of the lists callers pass that validate.
ValidEntries == { e \in UNION { Range(ds) : ds \in DoiLists } : Validated(e) }

\* A download_papers call that returned: every entry validated, there was
\* one, and the run completed.
FinishedJob(task) ==
  /\ task.tool = "download_papers"
  /\ task.pc = "returned"
  /\ task.outcome = "completed"
  /\ task.dois # <<>>
  /\ \A i \in DOMAIN task.dois : task.dois[i] \in ValidEntries

\* Every record of the registry, and every record get_job_summary returned,
\* was stored by a finished job under its job id.
OnlyFinishedJobs(registry, calls_) ==
  /\ \A j \in DOMAIN registry :
       FinishedJob(calls_[registry[j]]) /\ calls_[registry[j]].job = j
  /\ \A t \in DOMAIN calls_ :
       (calls_[t].tool = "get_job_summary" /\ calls_[t].pc = "returned")
         => calls_[t].summary \in DOMAIN calls_ /\ FinishedJob(calls_[calls_[t].summary])

\* C40: the registry, and what get_job_summary returns from it, hold records
\* of download_papers calls only whose entries all validated and whose run
\* completed; a call with an invalid or empty entry or an empty list is
\* rejected before it applies credentials or starts a thread, a call whose
\* run fails stores nothing, and neither does anything afterwards.
C40_RegistryHoldsFinishedJobs ==
  [][ /\ OnlyFinishedJobs(jobs', tasks')
      /\ \A t \in Tasks :
           /\ (tasks[t].pc # "raised" /\ tasks'[t].pc = "raised"
                 /\ tasks'[t].tool = "download_papers")
                => /\ jobs' = jobs
                   /\ values' = values
                   /\ tasks'[t].outcome = "ValueError"
                        => /\ tasks[t].pc = "idle"
                           /\ os_environ' = os_environ
                           /\ tasks'[t].built = {}
                   /\ tasks'[t].outcome # "ValueError"
                        => \A i \in DOMAIN tasks'[t].dois : tasks'[t].dois[i] \in ValidEntries
           /\ (tasks[t].pc = "idle" /\ tasks'[t].tool = "download_papers"
                 /\ \/ tasks'[t].dois = <<>>
                    \/ \E i \in DOMAIN tasks'[t].dois : tasks'[t].dois[i] \notin ValidEntries)
                => tasks'[t].pc = "raised" /\ tasks'[t].outcome = "ValueError"
           /\ tasks[t].pc = "raised" => tasks'[t] = tasks[t]
    ]_vars

\* get_job_summary returned the record of a job that was given its DOI behind
\* the resolver prefix, while the registry holds nothing else.
C40_Witness ==
  \E t, u \in Tasks :
    /\ tasks[t].tool = "get_job_summary"
    /\ tasks[t].pc = "returned"
    /\ tasks[t].summary = u
    /\ tasks[u].dois = <<HttpsPrefix \o WileyDoi \o <<" ">>>>
    /\ tasks[u].normalized = <<WileyDoi>>
    /\ DOMAIN jobs = {tasks[u].job}

====
